---- MODULE Spec2Model ----
(***************************************************************************)
(* A model of the CVSS score calculator (score-calculator.ts,              *)
(* validator.ts and the tables of models.ts).                              *)
(*                                                                         *)
(* Representation.                                                         *)
(*  - A vector string is the result of splitting it at "/": its first      *)
(*    segment (the version prefix) is a sequence of characters, so that    *)
(*    startsWith and !== are computed on the text; every other segment is  *)
(*    the result of splitting it at ":", a non-empty sequence of tokens    *)
(*    (the empty segment is <<"">>).                                       *)
(*  - JavaScript numbers are decimals.  The v4 lookup table and severity   *)
(*    distances are counted in tenths; v3 quantities and every returned    *)
(*    score are fixed-point numbers with Scale units to 1.0.  NaN (the     *)
(*    arithmetic value of undefined) is a value of its own that every      *)
(*    arithmetic operation propagates.                                     *)
(*  - A Map or a plain object is a function from its keys to its values;   *)
(*    Undefined is the value of a missing destructured element.            *)
(***************************************************************************)
EXTENDS Integers, Sequences, FiniteSets, TLC

VARIABLES
  vector,      \* the vector string handed to the library
  number,      \* the number handed to roundUp or calculateQualScore
  tieRoundsUp, \* which way a tie of Math.round falls for this vector
  op,          \* the function called last
  result,      \* what that call returned or threw
  metricsMap,  \* the Map returned by validate and updated in place by populate*
  firstScore   \* the first score call and what it gave, where a record is kept

vars == <<vector, number, tieRoundsUp, op, result, metricsMap, firstScore>>

-----------------------------------------------------------------------------
(* Values *)

Undefined == "<undefined>"
NaN == -2000000000
IsNaN(x) == x = NaN

Min2(a, b) == IF a <= b THEN a ELSE b
Abs(a) == IF a < 0 THEN -a ELSE a

\* s.startsWith(p) on sequences of characters
StartsWith(s, p) == Len(p) <= Len(s) /\ SubSeq(s, 1, Len(p)) = p

-----------------------------------------------------------------------------
(* models.ts: v4 tables *)

expectedMetricOrder == <<
  <<"AV", <<"N", "A", "L", "P">> >>,
  <<"AC", <<"L", "H">> >>,
  <<"AT", <<"N", "P">> >>,
  <<"PR", <<"N", "L", "H">> >>,
  <<"UI", <<"N", "P", "A">> >>,
  <<"VC", <<"H", "L", "N">> >>,
  <<"VI", <<"H", "L", "N">> >>,
  <<"VA", <<"H", "L", "N">> >>,
  <<"SC", <<"H", "L", "N">> >>,
  <<"SI", <<"H", "L", "N">> >>,
  <<"SA", <<"H", "L", "N">> >>,
  <<"E", <<"X", "A", "P", "U">> >>,
  <<"CR", <<"X", "H", "M", "L">> >>,
  <<"IR", <<"X", "H", "M", "L">> >>,
  <<"AR", <<"X", "H", "M", "L">> >>,
  <<"MAV", <<"X", "N", "A", "L", "P">> >>,
  <<"MAC", <<"X", "L", "H">> >>,
  <<"MAT", <<"X", "N", "P">> >>,
  <<"MPR", <<"X", "N", "L", "H">> >>,
  <<"MUI", <<"X", "N", "P", "A">> >>,
  <<"MVC", <<"X", "H", "L", "N">> >>,
  <<"MVI", <<"X", "H", "L", "N">> >>,
  <<"MVA", <<"X", "H", "L", "N">> >>,
  <<"MSC", <<"X", "H", "L", "N">> >>,
  <<"MSI", <<"X", "S", "H", "L", "N">> >>,
  <<"MSA", <<"X", "S", "H", "L", "N">> >>,
  <<"S", <<"X", "N", "P">> >>,
  <<"AU", <<"X", "N", "Y">> >>,
  <<"R", <<"X", "A", "U", "I">> >>,
  <<"V", <<"X", "D", "C">> >>,
  <<"RE", <<"X", "L", "M", "H">> >>,
  <<"U", <<"X", "Clear", "Green", "Amber", "Red">> >>
>>

\* max severity distances in EQs MacroVectors (+1)
maxSeverityV4 == [
  eq1 |-> (0 :> 1) @@ (1 :> 4) @@ (2 :> 5),
  eq2 |-> (0 :> 1) @@ (1 :> 2),
  eq3eq6 |-> (0 :> ((0 :> 7) @@ (1 :> 6))) @@
             (1 :> ((0 :> 8) @@ (1 :> 8))) @@
             (2 :> (1 :> 10)),
  eq4 |-> (0 :> 6) @@ (1 :> 5) @@ (2 :> 4),
  eq5 |-> (0 :> 1) @@ (1 :> 1) @@ (2 :> 1)
]

\* The MacroVector scores, in tenths.
LookupEntries == {
    <<"000000", 100>>, <<"000001", 99>>, <<"000010", 98>>, <<"000011", 95>>, <<"000020", 95>>, <<"000021", 92>>,
    <<"000100", 100>>, <<"000101", 96>>, <<"000110", 93>>, <<"000111", 87>>, <<"000120", 91>>, <<"000121", 81>>,
    <<"000200", 93>>, <<"000201", 90>>, <<"000210", 89>>, <<"000211", 80>>, <<"000220", 81>>, <<"000221", 68>>,
    <<"001000", 98>>, <<"001001", 95>>, <<"001010", 95>>, <<"001011", 92>>, <<"001020", 90>>, <<"001021", 84>>,
    <<"001100", 93>>, <<"001101", 92>>, <<"001110", 89>>, <<"001111", 81>>, <<"001120", 81>>, <<"001121", 65>>,
    <<"001200", 88>>, <<"001201", 80>>, <<"001210", 78>>, <<"001211", 70>>, <<"001220", 69>>, <<"001221", 48>>,
    <<"002001", 92>>, <<"002011", 82>>, <<"002021", 72>>, <<"002101", 79>>, <<"002111", 69>>, <<"002121", 50>>,
    <<"002201", 69>>, <<"002211", 55>>, <<"002221", 27>>, <<"010000", 99>>, <<"010001", 97>>, <<"010010", 95>>,
    <<"010011", 92>>, <<"010020", 92>>, <<"010021", 85>>, <<"010100", 95>>, <<"010101", 91>>, <<"010110", 90>>,
    <<"010111", 83>>, <<"010120", 84>>, <<"010121", 71>>, <<"010200", 92>>, <<"010201", 81>>, <<"010210", 82>>,
    <<"010211", 71>>, <<"010220", 72>>, <<"010221", 53>>, <<"011000", 95>>, <<"011001", 93>>, <<"011010", 92>>,
    <<"011011", 85>>, <<"011020", 85>>, <<"011021", 73>>, <<"011100", 92>>, <<"011101", 82>>, <<"011110", 80>>,
    <<"011111", 72>>, <<"011120", 70>>, <<"011121", 59>>, <<"011200", 84>>, <<"011201", 70>>, <<"011210", 71>>,
    <<"011211", 52>>, <<"011220", 50>>, <<"011221", 30>>, <<"012001", 86>>, <<"012011", 75>>, <<"012021", 52>>,
    <<"012101", 71>>, <<"012111", 52>>, <<"012121", 29>>, <<"012201", 63>>, <<"012211", 29>>, <<"012221", 17>>,
    <<"100000", 98>>, <<"100001", 95>>, <<"100010", 94>>, <<"100011", 87>>, <<"100020", 91>>, <<"100021", 81>>,
    <<"100100", 94>>, <<"100101", 89>>, <<"100110", 86>>, <<"100111", 74>>, <<"100120", 77>>, <<"100121", 64>>,
    <<"100200", 87>>, <<"100201", 75>>, <<"100210", 74>>, <<"100211", 63>>, <<"100220", 63>>, <<"100221", 49>>,
    <<"101000", 94>>, <<"101001", 89>>, <<"101010", 88>>, <<"101011", 77>>, <<"101020", 76>>, <<"101021", 67>>,
    <<"101100", 86>>, <<"101101", 76>>, <<"101110", 74>>, <<"101111", 58>>, <<"101120", 59>>, <<"101121", 50>>,
    <<"101200", 72>>, <<"101201", 57>>, <<"101210", 57>>, <<"101211", 52>>, <<"101220", 52>>, <<"101221", 25>>,
    <<"102001", 83>>, <<"102011", 70>>, <<"102021", 54>>, <<"102101", 65>>, <<"102111", 58>>, <<"102121", 26>>,
    <<"102201", 53>>, <<"102211", 21>>, <<"102221", 13>>, <<"110000", 95>>, <<"110001", 90>>, <<"110010", 88>>,
    <<"110011", 76>>, <<"110020", 76>>, <<"110021", 70>>, <<"110100", 90>>, <<"110101", 77>>, <<"110110", 75>>,
    <<"110111", 62>>, <<"110120", 61>>, <<"110121", 53>>, <<"110200", 77>>, <<"110201", 66>>, <<"110210", 68>>,
    <<"110211", 59>>, <<"110220", 52>>, <<"110221", 30>>, <<"111000", 89>>, <<"111001", 78>>, <<"111010", 76>>,
    <<"111011", 67>>, <<"111020", 62>>, <<"111021", 58>>, <<"111100", 74>>, <<"111101", 59>>, <<"111110", 57>>,
    <<"111111", 57>>, <<"111120", 47>>, <<"111121", 23>>, <<"111200", 61>>, <<"111201", 52>>, <<"111210", 57>>,
    <<"111211", 29>>, <<"111220", 24>>, <<"111221", 16>>, <<"112001", 71>>, <<"112011", 59>>, <<"112021", 30>>,
    <<"112101", 58>>, <<"112111", 26>>, <<"112121", 15>>, <<"112201", 23>>, <<"112211", 13>>, <<"112221", 6>>,
    <<"200000", 93>>, <<"200001", 87>>, <<"200010", 86>>, <<"200011", 72>>, <<"200020", 75>>, <<"200021", 58>>,
    <<"200100", 86>>, <<"200101", 74>>, <<"200110", 74>>, <<"200111", 61>>, <<"200120", 56>>, <<"200121", 34>>,
    <<"200200", 70>>, <<"200201", 54>>, <<"200210", 52>>, <<"200211", 40>>, <<"200220", 40>>, <<"200221", 22>>,
    <<"201000", 85>>, <<"201001", 75>>, <<"201010", 74>>, <<"201011", 55>>, <<"201020", 62>>, <<"201021", 51>>,
    <<"201100", 72>>, <<"201101", 57>>, <<"201110", 55>>, <<"201111", 41>>, <<"201120", 46>>, <<"201121", 19>>,
    <<"201200", 53>>, <<"201201", 36>>, <<"201210", 34>>, <<"201211", 19>>, <<"201220", 19>>, <<"201221", 8>>,
    <<"202001", 64>>, <<"202011", 51>>, <<"202021", 20>>, <<"202101", 47>>, <<"202111", 21>>, <<"202121", 11>>,
    <<"202201", 24>>, <<"202211", 9>>, <<"202221", 4>>, <<"210000", 88>>, <<"210001", 75>>, <<"210010", 73>>,
    <<"210011", 53>>, <<"210020", 60>>, <<"210021", 50>>, <<"210100", 73>>, <<"210101", 55>>, <<"210110", 59>>,
    <<"210111", 40>>, <<"210120", 41>>, <<"210121", 20>>, <<"210200", 54>>, <<"210201", 43>>, <<"210210", 45>>,
    <<"210211", 22>>, <<"210220", 20>>, <<"210221", 11>>, <<"211000", 75>>, <<"211001", 55>>, <<"211010", 58>>,
    <<"211011", 45>>, <<"211020", 40>>, <<"211021", 21>>, <<"211100", 61>>, <<"211101", 51>>, <<"211110", 48>>,
    <<"211111", 18>>, <<"211120", 20>>, <<"211121", 9>>, <<"211200", 46>>, <<"211201", 18>>, <<"211210", 17>>,
    <<"211211", 7>>, <<"211220", 8>>, <<"211221", 2>>, <<"212001", 53>>, <<"212011", 24>>, <<"212021", 14>>,
    <<"212101", 24>>, <<"212111", 12>>, <<"212121", 5>>, <<"212201", 10>>, <<"212211", 3>>, <<"212221", 1>>
}

\* the table without its last macrovector
cvssLookup_withoutLast ==
  [k \in {e[1] : e \in LookupEntries} \ {"212221"} |->
     (CHOOSE e \in LookupEntries : e[1] = k)[2]]

cvssLookup_globalV4 ==
  [k \in {e[1] : e \in LookupEntries} |-> (CHOOSE e \in LookupEntries : e[1] = k)[2]]

\* A maximal partial vector "AV:N/PR:N/UI:N/" is the sequence of its KEY:VALUE/
\* pieces.
maxComposed == [
  eq1 |->
    (0 :> << << <<"AV", "N">>, <<"PR", "N">>, <<"UI", "N">> >> >>) @@
    (1 :> << << <<"AV", "A">>, <<"PR", "N">>, <<"UI", "N">> >>,
             << <<"AV", "N">>, <<"PR", "L">>, <<"UI", "N">> >>,
             << <<"AV", "N">>, <<"PR", "N">>, <<"UI", "P">> >> >>) @@
    (2 :> << << <<"AV", "P">>, <<"PR", "N">>, <<"UI", "N">> >>,
             << <<"AV", "A">>, <<"PR", "L">>, <<"UI", "P">> >> >>),
  eq2 |->
    (0 :> << << <<"AC", "L">>, <<"AT", "N">> >> >>) @@
    (1 :> << << <<"AC", "H">>, <<"AT", "N">> >>,
             << <<"AC", "L">>, <<"AT", "P">> >> >>),
  eq3 |->
    (0 :> ((0 :> << << <<"VC", "H">>, <<"VI", "H">>, <<"VA", "H">>, <<"CR", "H">>, <<"IR", "H">>, <<"AR", "H">> >> >>) @@
           (1 :> << << <<"VC", "H">>, <<"VI", "H">>, <<"VA", "L">>, <<"CR", "M">>, <<"IR", "M">>, <<"AR", "H">> >>,
                    << <<"VC", "H">>, <<"VI", "H">>, <<"VA", "H">>, <<"CR", "M">>, <<"IR", "M">>, <<"AR", "M">> >> >>))) @@
    (1 :> ((0 :> << << <<"VC", "L">>, <<"VI", "H">>, <<"VA", "H">>, <<"CR", "H">>, <<"IR", "H">>, <<"AR", "H">> >>,
                    << <<"VC", "H">>, <<"VI", "L">>, <<"VA", "H">>, <<"CR", "H">>, <<"IR", "H">>, <<"AR", "H">> >> >>) @@
           (1 :> << << <<"VC", "L">>, <<"VI", "H">>, <<"VA", "L">>, <<"CR", "H">>, <<"IR", "M">>, <<"AR", "H">> >>,
                    << <<"VC", "L">>, <<"VI", "H">>, <<"VA", "H">>, <<"CR", "H">>, <<"IR", "M">>, <<"AR", "M">> >>,
                    << <<"VC", "H">>, <<"VI", "L">>, <<"VA", "H">>, <<"CR", "M">>, <<"IR", "H">>, <<"AR", "M">> >>,
                    << <<"VC", "H">>, <<"VI", "L">>, <<"VA", "L">>, <<"CR", "M">>, <<"IR", "H">>, <<"AR", "H">> >>,
                    << <<"VC", "L">>, <<"VI", "L">>, <<"VA", "H">>, <<"CR", "H">>, <<"IR", "H">>, <<"AR", "M">> >> >>))) @@
    (2 :> (1 :> << << <<"VC", "L">>, <<"VI", "L">>, <<"VA", "L">>, <<"CR", "H">>, <<"IR", "H">>, <<"AR", "H">> >> >>)),
  eq4 |->
    (0 :> << << <<"SC", "H">>, <<"SI", "S">>, <<"SA", "S">> >> >>) @@
    (1 :> << << <<"SC", "H">>, <<"SI", "H">>, <<"SA", "H">> >> >>) @@
    (2 :> << << <<"SC", "L">>, <<"SI", "L">>, <<"SA", "L">> >> >>),
  eq5 |->
    (0 :> << << <<"E", "A">> >> >>) @@
    (1 :> << << <<"E", "P">> >> >>) @@
    (2 :> << << <<"E", "U">> >> >>)
]

-----------------------------------------------------------------------------
(* Results of a call *)

EmptyMap == [k \in {} |-> Undefined]
NoResult == [kind |-> "none", value |-> NaN, error |-> ""]
Return(v) == [kind |-> "return", value |-> v, error |-> ""]
Throw(e) == [kind |-> "throw", value |-> NaN, error |-> e]

\* Fixed-point: Scale units to 1.0; a tenth is Tenth units.
Scale == 10^8
Tenth == Scale \div 10

\* const [key, value] = metric.split(":")
SegKey(metric) == metric[1]
SegValue(metric) == IF Len(metric) >= 2 THEN metric[2] ELSE Undefined

-----------------------------------------------------------------------------
(* score-calculator.ts: validateVectorV4, parseVectorV4 *)

V4Prefix == <<"C", "V", "S", "S", ":", "4", ".", "0">>

mandatoryMetrics == <<"AV", "AC", "AT", "PR", "UI", "VC", "VI", "VA", "SC", "SI", "SA">>

Includes(seq, x) == \E i \in 1..Len(seq) : seq[i] = x

\* expectedEntries.find(entry => entry[0] === key): the entry's index, 0 if none
FindExpectedEntry(key) ==
  IF \E i \in 1..Len(expectedMetricOrder) : expectedMetricOrder[i][1] = key
  THEN CHOOSE i \in 1..Len(expectedMetricOrder) : expectedMetricOrder[i][1] = key
  ELSE 0

\* while (expectedIndex < expectedEntries.length
\*        && expectedEntries[expectedIndex][0] !== key) expectedIndex++
RECURSIVE AdvanceExpectedIndex(_, _)
AdvanceExpectedIndex(expectedIndex, key) ==
  IF expectedIndex < Len(expectedMetricOrder)
     /\ expectedMetricOrder[expectedIndex + 1][1] # key
  THEN AdvanceExpectedIndex(expectedIndex + 1, key)
  ELSE expectedIndex

Invalid(e) == [valid |-> FALSE, error |-> e, selectedMetrics |-> EmptyMap]

\* seq.join(sep)
RECURSIVE Join(_, _)
Join(seq, sep) ==
  IF Len(seq) = 0 THEN ""
  ELSE IF Len(seq) = 1 THEN seq[1]
  ELSE seq[1] \o sep \o Join(Tail(seq), sep)

\* `${value}`: undefined is written "undefined"
Interpolated(value) == IF value = Undefined THEN "undefined" ELSE value

\* no key counts as seen
InToSelect_never(key, toSelect) == FALSE

\* key in toSelect
InToSelect(key, toSelect) == key \in DOMAIN toSelect

\* the for loop over the segments, then the mandatory-metric check
RECURSIVE ValidateSegmentsV4(_, _, _, _)
ValidateSegmentsV4(metrics, i, expectedIndex, toSelect) ==
  IF i > Len(metrics)
  THEN LET missingMandatoryMetrics ==
             SelectSeq(mandatoryMetrics, LAMBDA metric : metric \notin DOMAIN toSelect)
       IN  IF Len(missingMandatoryMetrics) > 0
           THEN Invalid("Invalid vector, missing mandatory metrics: "
                        \o Join(missingMandatoryMetrics, ", "))
           ELSE [valid |-> TRUE, error |-> "", selectedMetrics |-> toSelect]
  ELSE
    LET key == SegKey(metrics[i])
        value == SegValue(metrics[i])
        expectedEntry == FindExpectedEntry(key)
        newIndex == AdvanceExpectedIndex(expectedIndex, key)
    IN  IF InToSelect(key, toSelect)
        THEN Invalid("Invalid vector, repeated metric: " \o key)
        ELSE IF newIndex >= Len(expectedMetricOrder)
        THEN Invalid("Invalid vector, metric out of sequence: " \o key)
        ELSE IF expectedEntry = 0
        THEN Invalid("Invalid vector, unexpected metric: " \o key)
        ELSE IF ~Includes(expectedMetricOrder[expectedEntry][2], value)
        THEN Invalid("Invalid vector, for key " \o key \o ", value " \o Interpolated(value)
                     \o " is not in [" \o Join(expectedMetricOrder[expectedEntry][2], ",")
                     \o "]")
        ELSE ValidateSegmentsV4(metrics, i + 1, newIndex, toSelect @@ (key :> value))

\* the segments checked, whatever the first segment
validateVectorV4_anyPrefix(vectorString) ==
  ValidateSegmentsV4(vectorString.segs, 1, 0, EmptyMap)

validateVectorV4(vectorString) ==
  IF vectorString.prefix # V4Prefix
  THEN Invalid("Invalid vector prefix")
  ELSE ValidateSegmentsV4(vectorString.segs, 1, 0, EmptyMap)

\* metrics.forEach(metric => cvssSelected[key] = value): a later segment
\* overwrites an earlier one with the same key
RECURSIVE AssignSegments(_, _, _)
AssignSegments(metrics, i, cvssSelected) ==
  IF i > Len(metrics) THEN cvssSelected
  ELSE AssignSegments(metrics, i + 1,
         (SegKey(metrics[i]) :> SegValue(metrics[i])) @@ cvssSelected)

\* an absent metric defaulted to Medium
DefaultX_medium(cvssSelected, key) ==
  IF key \in DOMAIN cvssSelected THEN cvssSelected ELSE cvssSelected @@ (key :> "M")

\* if (!(key in cvssSelected)) cvssSelected[key] = "X"
DefaultX(cvssSelected, key) ==
  IF key \in DOMAIN cvssSelected THEN cvssSelected ELSE cvssSelected @@ (key :> "X")

parseVectorV4(vectorString) ==
  DefaultX(DefaultX(DefaultX(DefaultX(
    AssignSegments(vectorString.segs, 1, EmptyMap), "E"), "CR"), "IR"), "AR")

-----------------------------------------------------------------------------
(* score-calculator.ts: m, macroVector *)

\* the base metric's own value, whatever its modified metric says
m_baseOnly(cvssSelected, metric) ==
  LET selected == IF metric \in DOMAIN cvssSelected THEN cvssSelected[metric] ELSE Undefined
  IN  IF metric = "E" /\ selected = "X" THEN "A"
      ELSE IF metric \in {"CR", "IR", "AR"} /\ selected = "X" THEN "H"
      ELSE selected

\* a requirement that is not defined read as Medium
m_mediumRequirement(cvssSelected, metric) ==
  LET selected == IF metric \in DOMAIN cvssSelected THEN cvssSelected[metric] ELSE Undefined
      modified == "M" \o metric
  IN  IF metric = "E" /\ selected = "X" THEN "A"
      ELSE IF metric \in {"CR", "IR", "AR"} /\ selected = "X" THEN "M"
      ELSE IF modified \in DOMAIN cvssSelected /\ cvssSelected[modified] # "X"
      THEN cvssSelected[modified]
      ELSE selected

\* E:X read as Unreported
m_unreported(cvssSelected, metric) ==
  LET selected == IF metric \in DOMAIN cvssSelected THEN cvssSelected[metric] ELSE Undefined
      modified == "M" \o metric
  IN  IF metric = "E" /\ selected = "X" THEN "U"
      ELSE IF metric \in {"CR", "IR", "AR"} /\ selected = "X" THEN "H"
      ELSE IF modified \in DOMAIN cvssSelected /\ cvssSelected[modified] # "X"
      THEN cvssSelected[modified]
      ELSE selected

m(cvssSelected, metric) ==
  LET selected == IF metric \in DOMAIN cvssSelected THEN cvssSelected[metric] ELSE Undefined
      modified == "M" \o metric
  IN  IF metric = "E" /\ selected = "X" THEN "A"
      ELSE IF metric = "CR" /\ selected = "X" THEN "H"
      ELSE IF metric = "IR" /\ selected = "X" THEN "H"
      ELSE IF metric = "AR" /\ selected = "X" THEN "H"
      ELSE IF modified \in DOMAIN cvssSelected /\ cvssSelected[modified] # "X"
      THEN cvssSelected[modified]
      ELSE selected

macroVector(cvssSelected) ==
  LET AV == m(cvssSelected, "AV")
      PR == m(cvssSelected, "PR")
      UI == m(cvssSelected, "UI")
      AC == m(cvssSelected, "AC")
      AT == m(cvssSelected, "AT")
      VC == m(cvssSelected, "VC")
      VI == m(cvssSelected, "VI")
      VA == m(cvssSelected, "VA")
      SC == m(cvssSelected, "SC")
      SI == m(cvssSelected, "SI")
      SA == m(cvssSelected, "SA")
      MSI == m(cvssSelected, "MSI")
      MSA == m(cvssSelected, "MSA")
      E == m(cvssSelected, "E")
      CR == m(cvssSelected, "CR")
      IR == m(cvssSelected, "IR")
      AR == m(cvssSelected, "AR")
      eq1 == IF AV = "N" /\ PR = "N" /\ UI = "N" THEN 0
             ELSE IF (AV = "N" \/ PR = "N" \/ UI = "N")
                     /\ ~(AV = "N" /\ PR = "N" /\ UI = "N")
                     /\ ~(AV = "P") THEN 1
             ELSE IF AV = "P" \/ ~(AV = "N" \/ PR = "N" \/ UI = "N") THEN 2
             ELSE 0
      eq2 == IF AC = "L" /\ AT = "N" THEN 0
             ELSE IF ~(AC = "L" /\ AT = "N") THEN 1
             ELSE 0
      eq3 == IF VC = "H" /\ VI = "H" THEN 0
             ELSE IF ~(VC = "H" /\ VI = "H") /\ (VC = "H" \/ VI = "H" \/ VA = "H") THEN 1
             ELSE IF ~(VC = "H" \/ VI = "H" \/ VA = "H") THEN 2
             ELSE 0
      eq4 == IF MSI = "S" \/ MSA = "S" THEN 0
             ELSE IF ~(MSI = "S" \/ MSA = "S") /\ (SC = "H" \/ SI = "H" \/ SA = "H") THEN 1
             ELSE IF ~(MSI = "S" \/ MSA = "S") /\ ~(SC = "H" \/ SI = "H" \/ SA = "H") THEN 2
             ELSE 0
      eq5 == IF E = "A" THEN 0
             ELSE IF E = "P" THEN 1
             ELSE IF E = "U" THEN 2
             ELSE 0
      eq6 == IF (CR = "H" /\ VC = "H") \/ (IR = "H" /\ VI = "H") \/ (AR = "H" /\ VA = "H") THEN 0
             ELSE IF ~((CR = "H" /\ VC = "H") \/ (IR = "H" /\ VI = "H") \/ (AR = "H" /\ VA = "H")) THEN 1
             ELSE 0
  IN  <<eq1, eq2, eq3, eq4, eq5, eq6>>

-----------------------------------------------------------------------------
(* score-calculator.ts: cvss_score and its helpers *)

\* The index of each metric's values, in steps of 0.1.
AV_levels == ("N" :> 0) @@ ("A" :> 1) @@ ("L" :> 2) @@ ("P" :> 3)
PR_levels == ("N" :> 0) @@ ("L" :> 1) @@ ("H" :> 2)
UI_levels == ("N" :> 0) @@ ("P" :> 1) @@ ("A" :> 2)
AC_levels == ("L" :> 0) @@ ("H" :> 1)
AT_levels == ("N" :> 0) @@ ("P" :> 1)
VC_levels == ("H" :> 0) @@ ("L" :> 1) @@ ("N" :> 2)
VI_levels == ("H" :> 0) @@ ("L" :> 1) @@ ("N" :> 2)
VA_levels == ("H" :> 0) @@ ("L" :> 1) @@ ("N" :> 2)
SC_levels == ("H" :> 1) @@ ("L" :> 2) @@ ("N" :> 3)
SI_levels == ("S" :> 0) @@ ("H" :> 1) @@ ("L" :> 2) @@ ("N" :> 3)
SA_levels == ("S" :> 0) @@ ("H" :> 1) @@ ("L" :> 2) @@ ("N" :> 3)
CR_levels == ("H" :> 0) @@ ("M" :> 1) @@ ("L" :> 2)
IR_levels == ("H" :> 0) @@ ("M" :> 1) @@ ("L" :> 2)
AR_levels == ("H" :> 0) @@ ("M" :> 1) @@ ("L" :> 2)

Levels == [AV |-> AV_levels, PR |-> PR_levels, UI |-> UI_levels,
           AC |-> AC_levels, AT |-> AT_levels,
           VC |-> VC_levels, VI |-> VI_levels, VA |-> VA_levels,
           SC |-> SC_levels, SI |-> SI_levels, SA |-> SA_levels,
           CR |-> CR_levels, IR |-> IR_levels, AR |-> AR_levels]

\* the 14 metric axes of the severity distance, in the order of the code
DistanceMetrics == <<"AV", "PR", "UI", "AC", "AT", "VC", "VI", "VA",
                     "SC", "SI", "SA", "CR", "IR", "AR">>

\* maxComposed[`eq${eq}`][lookup[eq - 1]]
getEQMaxes(lookup, eq) ==
  CASE eq = 1 -> maxComposed.eq1[lookup[1]]
    [] eq = 2 -> maxComposed.eq2[lookup[2]]
    [] eq = 3 -> maxComposed.eq3[lookup[3]]
    [] eq = 4 -> maxComposed.eq4[lookup[4]]
    [] eq = 5 -> maxComposed.eq5[lookup[5]]

\* the value that follows the first occurrence of the metric in the vector
extractValueMetric(metric, str) ==
  LET i == CHOOSE j \in 1..Len(str) :
             /\ str[j][1] = metric
             /\ \A k \in 1..(j - 1) : str[k][1] # metric
  IN  str[i][2]

\* lookup[key]: the score in tenths, NaN when the key is absent
LookupScore(lookup, macro) ==
  LET key == ToString(macro[1]) \o ToString(macro[2]) \o ToString(macro[3])
             \o ToString(macro[4]) \o ToString(macro[5]) \o ToString(macro[6])
  IN  IF key \in DOMAIN lookup THEN lookup[key] ELSE NaN

\* for (a of A) for (b of B) push(a + b)
Compose(A, B) ==
  [i \in 1..(Len(A) * Len(B)) |->
     A[((i - 1) \div Len(B)) + 1] \o B[((i - 1) % Len(B)) + 1]]

SeverityDistance(cvssSelected, max_vector) ==
  [k \in {DistanceMetrics[i] : i \in 1..Len(DistanceMetrics)} |->
     Levels[k][m(cvssSelected, k)] - Levels[k][extractValueMetric(k, max_vector)]]

\* the distances to the first candidate, whatever their signs
SearchMaxVector_firstCandidate(cvssSelected, max_vectors, i) ==
  SeverityDistance(cvssSelected, max_vectors[i])

\* The loop over max_vectors: the distances left in the severity_distance_*
\* variables are those of the first candidate with no negative distance, or of
\* the last candidate when every candidate has one.
RECURSIVE SearchMaxVector(_, _, _)
SearchMaxVector(cvssSelected, max_vectors, i) ==
  LET d == SeverityDistance(cvssSelected, max_vectors[i])
  IN  IF (\E k \in DOMAIN d : d[k] < 0) /\ i < Len(max_vectors)
      THEN SearchMaxVector(cvssSelected, max_vectors, i + 1)
      ELSE d

\* a - b on numbers that may be NaN
Sub(a, b) == IF IsNaN(a) \/ IsNaN(b) THEN NaN ELSE a - b

\* Every maxSeverity entry divides SeverityScale: the proportions
\* distance / maxSeverity are kept exact as multiples of 1 / SeverityScale.
SeverityScale == 2 * 2 * 2 * 3 * 5 * 7

\* Math.round(num / den) for den > 0.  The code computes the quotient in
\* doubles: away from a tie the rounding error cannot change the result; on
\* an exact tie the error decides, and tieUp says which way it fell.
\* the quotient cut to a whole number
MathRound_floor(num, den, tieUp) == num \div den

MathRound(num, den, tieUp) ==
  IF (2 * num) % den = 0 /\ ((2 * num) \div den) % 2 = 1 /\ ~tieUp
  THEN num \div den
  ELSE (2 * num + den) \div (2 * den)

\* the shortcut's test, on the metrics' modified values only
NoImpact_modifiedOnly(cvssSelected) ==
  \A metric \in {"VC", "VI", "VA", "SC", "SI", "SA"} :
     m(cvssSelected, "M" \o metric) = "N"

\* ["VC", "VI", "VA", "SC", "SI", "SA"].every(metric => m(cvssSelected, metric) === "N")
NoImpact(cvssSelected) ==
  \A metric \in {"VC", "VI", "VA", "SC", "SI", "SA"} : m(cvssSelected, metric) = "N"

\* The next lower macrovector of each equivalence class.
eq1_next_lower_macro(macro) ==
  <<macro[1] + 1, macro[2], macro[3], macro[4], macro[5], macro[6]>>

eq2_next_lower_macro(macro) ==
  <<macro[1], macro[2] + 1, macro[3], macro[4], macro[5], macro[6]>>

\* eq3 and eq6 are related; this is the macrovector when they are not both 0
eq3eq6_next_lower_macro(macro) ==
  LET eq1 == macro[1]
      eq2 == macro[2]
      eq3 == macro[3]
      eq4 == macro[4]
      eq5 == macro[5]
      eq6 == macro[6]
  IN  IF eq3 = 1 /\ eq6 = 1 THEN <<eq1, eq2, eq3 + 1, eq4, eq5, eq6 + 1>>
      ELSE IF eq3 = 0 /\ eq6 = 1 THEN <<eq1, eq2, eq3 + 1, eq4, eq5, eq6>>
      ELSE IF eq3 = 1 /\ eq6 = 0 THEN <<eq1, eq2, eq3, eq4, eq5, eq6 + 1>>
      ELSE <<eq1, eq2, eq3 + 1, eq4, eq5, eq6 + 1>>

eq3eq6_next_lower_macro_left(macro) ==
  <<macro[1], macro[2], macro[3], macro[4], macro[5], macro[6] + 1>>

eq3eq6_next_lower_macro_right(macro) ==
  <<macro[1], macro[2], macro[3] + 1, macro[4], macro[5], macro[6]>>

eq4_next_lower_macro(macro) ==
  <<macro[1], macro[2], macro[3], macro[4] + 1, macro[5], macro[6]>>

\* the macrovector above in EQ5 rather than below
eq5_next_lower_macro_above(macro) ==
  <<macro[1], macro[2], macro[3], macro[4], macro[5] - 1, macro[6]>>

eq5_next_lower_macro(macro) ==
  <<macro[1], macro[2], macro[3], macro[4], macro[5] + 1, macro[6]>>

\* with two paths the one with the higher score; a comparison with an
\* undefined score is false
score_eq3eq6_next_lower_macro(lookup, macro) ==
  LET left == LookupScore(lookup, eq3eq6_next_lower_macro_left(macro))
      right == LookupScore(lookup, eq3eq6_next_lower_macro_right(macro))
  IN  IF macro[3] = 0 /\ macro[6] = 0
      THEN IF ~IsNaN(left) /\ ~IsNaN(right) /\ left > right THEN left ELSE right
      ELSE LookupScore(lookup, eq3eq6_next_lower_macro(macro))

\* value - score of the next lower macrovector, NaN when there is none
available_distance(lookup, macro) ==
  LET value == LookupScore(lookup, macro)
  IN  [eq1 |-> Sub(value, LookupScore(lookup, eq1_next_lower_macro(macro))),
       eq2 |-> Sub(value, LookupScore(lookup, eq2_next_lower_macro(macro))),
       eq3eq6 |-> Sub(value, score_eq3eq6_next_lower_macro(lookup, macro)),
       eq4 |-> Sub(value, LookupScore(lookup, eq4_next_lower_macro(macro))),
       eq5 |-> Sub(value, LookupScore(lookup, eq5_next_lower_macro(macro)))]

\* the five nested loops that fill max_vectors
max_vectors(macro) ==
  LET eq1_maxes == getEQMaxes(macro, 1)
      eq2_maxes == getEQMaxes(macro, 2)
      eq3_eq6_maxes == getEQMaxes(macro, 3)[macro[6]]
      eq4_maxes == getEQMaxes(macro, 4)
      eq5_maxes == getEQMaxes(macro, 5)
  IN  Compose(Compose(Compose(Compose(eq1_maxes, eq2_maxes), eq3_eq6_maxes),
                      eq4_maxes), eq5_maxes)

\* the severity_distance_* variables after the loop, in tenths
severity_distance(cvssSelected, macro) ==
  SearchMaxVector(cvssSelected, max_vectors(macro), 1)

\* the sums of the distances of each class's metrics
current_severity_distance_eq1(cvssSelected, macro) ==
  LET d == severity_distance(cvssSelected, macro)
  IN  d["AV"] + d["PR"] + d["UI"]

current_severity_distance_eq2(cvssSelected, macro) ==
  LET d == severity_distance(cvssSelected, macro)
  IN  d["AC"] + d["AT"]

current_severity_distance_eq3eq6(cvssSelected, macro) ==
  LET d == severity_distance(cvssSelected, macro)
  IN  d["VC"] + d["VI"] + d["VA"] + d["CR"] + d["IR"] + d["AR"]

current_severity_distance_eq4(cvssSelected, macro) ==
  LET d == severity_distance(cvssSelected, macro)
  IN  d["SC"] + d["SI"] + d["SA"]

current_severity_distance(cvssSelected, macro) ==
  [eq1 |-> current_severity_distance_eq1(cvssSelected, macro),
   eq2 |-> current_severity_distance_eq2(cvssSelected, macro),
   eq3eq6 |-> current_severity_distance_eq3eq6(cvssSelected, macro),
   eq4 |-> current_severity_distance_eq4(cvssSelected, macro)]

\* maxSeverityData[...] * step, in tenths
maxSeverity(maxSeverityData, macro) ==
  [eq1 |-> maxSeverityData.eq1[macro[1]],
   eq2 |-> maxSeverityData.eq2[macro[2]],
   eq3eq6 |-> maxSeverityData.eq3eq6[macro[3]][macro[6]],
   eq4 |-> maxSeverityData.eq4[macro[4]]]

\* every class counted, with or without a lower macrovector
n_existing_lower_all(available) == 5

\* the classes whose available distance is not NaN
n_existing_lower(available) ==
  Cardinality({eq \in DOMAIN available : ~IsNaN(available[eq])})

\* available_distance * (current_severity_distance / maxSeverity), in tenths
\* times SeverityScale; 0 for a class that was skipped
normalized_severity(available, current, max) ==
  IF IsNaN(available) THEN 0
  ELSE available * current * (SeverityScale \div max)

\* the sum of the normalized severities, eq5's being 0
SumOfNormalized(cvssSelected, lookup, maxSeverityData, macro) ==
  normalized_severity(available_distance(lookup, macro).eq1,
                      current_severity_distance_eq1(cvssSelected, macro),
                      maxSeverity(maxSeverityData, macro).eq1)
  + normalized_severity(available_distance(lookup, macro).eq2,
                        current_severity_distance_eq2(cvssSelected, macro),
                        maxSeverity(maxSeverityData, macro).eq2)
  + normalized_severity(available_distance(lookup, macro).eq3eq6,
                        current_severity_distance_eq3eq6(cvssSelected, macro),
                        maxSeverity(maxSeverityData, macro).eq3eq6)
  + normalized_severity(available_distance(lookup, macro).eq4,
                        current_severity_distance_eq4(cvssSelected, macro),
                        maxSeverity(maxSeverityData, macro).eq4)
  + 0

\* value - sum / n_existing_lower, kept between 0 and 10 and rounded to one
\* decimal, computed on the fraction num / den of a tenth
RoundedScore(value, existing, sum, tieUp) ==
  LET den == IF existing = 0 THEN SeverityScale
             ELSE SeverityScale * existing
      num == IF existing = 0 THEN value * SeverityScale
             ELSE value * SeverityScale * existing - sum
      clamped == IF num < 0 THEN 0
                 ELSE IF num > 100 * den THEN 100 * den
                 ELSE num
  IN  IF IsNaN(value) THEN NaN
      ELSE MathRound(clamped, den, tieUp) * Tenth

cvss_score(cvssSelected, lookup, maxSeverityData, macroVectorResult, tieUp) ==
  IF NoImpact(cvssSelected)
  THEN 0
  ELSE RoundedScore(LookupScore(lookup, macroVectorResult),
                    n_existing_lower(available_distance(lookup, macroVectorResult)),
                    SumOfNormalized(cvssSelected, lookup, maxSeverityData,
                                    macroVectorResult),
                    tieUp)

calculateBaseScoreV4(vectorString, tieUp) ==
  LET vvres == validateVectorV4(vectorString)
  IN  IF ~vvres.valid THEN Throw(vvres.error)
      ELSE LET cvssSelected == parseVectorV4(vectorString)
               macrov == macroVector(cvssSelected)
           IN  Return(cvss_score(cvssSelected, cvssLookup_globalV4, maxSeverityV4, macrov,
                                 tieUp))

\* the upper end of each band counted in the band
calculateQualScore_inclusive(score) ==
  IF score = 0 THEN "None"
  ELSE IF ~IsNaN(score) /\ score <= 4 * Scale THEN "Low"
  ELSE IF ~IsNaN(score) /\ score <= 7 * Scale THEN "Medium"
  ELSE IF ~IsNaN(score) /\ score <= 9 * Scale THEN "High"
  ELSE "Critical"

\* the comparisons of calculateQualScore are all false for NaN
calculateQualScore(score) ==
  IF score = 0 THEN "None"
  ELSE IF ~IsNaN(score) /\ score < 4 * Scale THEN "Low"
  ELSE IF ~IsNaN(score) /\ score < 7 * Scale THEN "Medium"
  ELSE IF ~IsNaN(score) /\ score < 9 * Scale THEN "High"
  ELSE "Critical"
-----------------------------------------------------------------------------
(* models.ts: v3 metric catalog *)

baseMetrics == <<"AV", "AC", "PR", "UI", "S", "C", "I", "A">>

temporalMetrics == <<"E", "RL", "RC">>

environmentalMetrics ==
  <<"AR", "CR", "IR", "MAV", "MAC", "MPR", "MUI", "MS", "MC", "MI", "MA">>

baseMetricValues == [
  AV |-> <<"N", "A", "L", "P">>,
  AC |-> <<"L", "H">>,
  PR |-> <<"N", "L", "H">>,
  UI |-> <<"N", "R">>,
  S |-> <<"U", "C">>,
  C |-> <<"N", "L", "H">>,
  I |-> <<"N", "L", "H">>,
  A |-> <<"N", "L", "H">>
]

temporalMetricValues == [
  E |-> <<"X", "H", "F", "P", "U">>,
  RL |-> <<"X", "U", "W", "T", "O">>,
  RC |-> <<"X", "C", "R", "U">>
]

environmentalMetricValues == [
  CR |-> <<"X", "H", "M", "L">>,
  IR |-> <<"X", "H", "M", "L">>,
  AR |-> <<"X", "H", "M", "L">>,
  MAV |-> <<"X", "N", "A", "L", "P">>,
  MAC |-> <<"X", "L", "H">>,
  MPR |-> <<"X", "N", "L", "H">>,
  MUI |-> <<"X", "N", "R">>,
  MS |-> <<"X", "U", "C">>,
  MC |-> <<"X", "N", "L", "H">>,
  MI |-> <<"X", "N", "L", "H">>,
  MA |-> <<"X", "N", "L", "H">>
]

-----------------------------------------------------------------------------
(* parser.ts: the version tag, the vector part and the metric map *)

CvssPrefix == <<"C", "V", "S", "S", ":">>

Null == <<"<null>">>

\* the text that follows "CVSS:" in the first segment, null without "CVSS:"
parseVersion(cvssStr) ==
  IF StartsWith(cvssStr.prefix, CvssPrefix)
  THEN SubSeq(cvssStr.prefix, Len(CvssPrefix) + 1, Len(cvssStr.prefix))
  ELSE Null

\* what follows the first segment: "/" and a segment, for each segment
parseVector(cvssStr) ==
  IF StartsWith(cvssStr.prefix, CvssPrefix) THEN cvssStr.segs ELSE Null

\* the (key, value) pair of a segment; the empty segment has key "" and value ""
ParsedKey(metric) == metric[1]
ParsedValue(metric) ==
  IF metric = <<"">> THEN ""
  ELSE IF Len(metric) >= 2 THEN metric[2] ELSE Undefined

\* the map of the pairs in vector order, or the duplicated key
RECURSIVE ParseMetrics(_, _, _)
ParseMetrics(segs, i, map) ==
  IF i > Len(segs) THEN [ok |-> TRUE, metricsMap |-> map]
  ELSE IF ParsedKey(segs[i]) \in DOMAIN map
  THEN [ok |-> FALSE, metricsMap |-> EmptyMap]
  ELSE ParseMetrics(segs, i + 1, map @@ (ParsedKey(segs[i]) :> ParsedValue(segs[i])))

parseMetricsAsMap(cvssStr) == ParseMetrics(cvssStr.segs, 1, EmptyMap)

-----------------------------------------------------------------------------
(* validator.ts *)

Version30 == <<"3", ".", "0">>
Version31 == <<"3", ".", "1">>
Version40 == <<"4", ".", "0">>

\* the message thrown, "" when validateVersion returns
validateVersion(versionStr) ==
  IF versionStr = Null \/ versionStr = <<>>
  THEN "Invalid CVSS string"
  ELSE IF versionStr # Version30 /\ versionStr # Version31 /\ versionStr # Version40
  THEN "Unsupported CVSS version"
  ELSE ""

\* vectorStr.includes("//"): an empty segment followed by another segment
validateVector(vectorStr) ==
  IF vectorStr = Null \/ vectorStr = <<>>
     \/ \E i \in 1..(Len(vectorStr) - 1) : vectorStr[i] = <<"">>
  THEN "Invalid CVSS string"
  ELSE ""

allKnownMetrics == baseMetrics \o temporalMetrics \o environmentalMetrics

allKnownMetricsValues ==
  baseMetricValues @@ temporalMetricValues @@ environmentalMetricValues

checkMandatoryMetrics(map) ==
  IF \E i \in 1..Len(baseMetrics) : baseMetrics[i] \notin DOMAIN map
  THEN "Missing mandatory CVSS metric"
  ELSE ""

checkUnknownMetrics(map, knownMetrics) ==
  IF \E userMetric \in DOMAIN map : ~Includes(knownMetrics, userMetric)
  THEN "Unknown CVSS metric"
  ELSE ""

\* !userValue: undefined and "" are skipped
Falsy(userValue) == userValue = Undefined \/ userValue = ""

checkMetricsValues(map, metrics, metricsValues) ==
  IF \E i \in 1..Len(metrics) :
       /\ metrics[i] \in DOMAIN map
       /\ ~Falsy(map[metrics[i]])
       /\ ~Includes(metricsValues[metrics[i]], map[metrics[i]])
  THEN "Invalid value for CVSS metric"
  ELSE ""

Invalidated(e) ==
  [ok |-> FALSE, error |-> e, metricsMap |-> EmptyMap, versionStr |-> Null,
   isTemporal |-> FALSE, isEnvironmental |-> FALSE]

validate(cvssStr) ==
  IF ~StartsWith(cvssStr.prefix, CvssPrefix)
  THEN Invalidated("CVSS vector must start with CVSS:")
  ELSE
  \* a "CVSS:4" string is also passed to validateVectorV4, whose result is dropped
  LET versionStr == parseVersion(cvssStr)
      vectorStr == parseVector(cvssStr)
      parsed == parseMetricsAsMap(cvssStr)
      map == parsed.metricsMap
  IN  IF validateVersion(versionStr) # "" THEN Invalidated(validateVersion(versionStr))
      ELSE IF validateVector(vectorStr) # "" THEN Invalidated(validateVector(vectorStr))
      ELSE IF ~parsed.ok THEN Invalidated("Duplicated metric")
      ELSE IF checkMandatoryMetrics(map) # "" THEN Invalidated(checkMandatoryMetrics(map))
      ELSE IF checkUnknownMetrics(map, allKnownMetrics) # ""
      THEN Invalidated(checkUnknownMetrics(map, allKnownMetrics))
      ELSE IF checkMetricsValues(map, allKnownMetrics, allKnownMetricsValues) # ""
      THEN Invalidated(checkMetricsValues(map, allKnownMetrics, allKnownMetricsValues))
      ELSE [ok |-> TRUE, error |-> "", metricsMap |-> map, versionStr |-> versionStr,
            isTemporal |-> \E k \in DOMAIN map : Includes(temporalMetrics, k),
            isEnvironmental |-> \E k \in DOMAIN map : Includes(environmentalMetrics, k)]

-----------------------------------------------------------------------------
(* score-calculator.ts: numbers.  A number is an integer count of 1/Scale
   units; NaN is a value of its own that every operation hands on. *)

Frac(n, d) == n * (Scale \div d)

Limb == 10^4

\* the product of two non-negative numbers, cut to a whole unit
MulAbs(a, b) ==
  LET ah == a \div Limb
      al == a % Limb
      bh == b \div Limb
      bl == b % Limb
  IN  ah * bh + (ah * bl) \div Limb + (al * bh) \div Limb
      + ((((ah * bl) % Limb) + ((al * bh) % Limb)) * Limb + al * bl) \div Scale

Mul(a, b) ==
  IF IsNaN(a) \/ IsNaN(b) THEN NaN
  ELSE IF (a < 0) = (b < 0) THEN MulAbs(Abs(a), Abs(b))
  ELSE 0 - MulAbs(Abs(a), Abs(b))

Add(a, b) == IF IsNaN(a) \/ IsNaN(b) THEN NaN ELSE a + b

Minus(a, b) == IF IsNaN(a) \/ IsNaN(b) THEN NaN ELSE a - b

\* Math.min
MathMin(a, b) == IF IsNaN(a) \/ IsNaN(b) THEN NaN ELSE Min2(a, b)

\* Math.pow with a positive whole exponent
RECURSIVE MathPow(_, _)
MathPow(x, n) == IF n = 1 THEN x ELSE Mul(MathPow(x, n - 1), x)

\* x <= 0, false for NaN
LeqZero(x) == ~IsNaN(x) /\ x <= 0

One == Frac(1, 1)

-----------------------------------------------------------------------------
(* score-calculator.ts: v3 weights *)

baseMetricValueScores == [
  AV |-> ("N" :> Frac(85, 100)) @@ ("A" :> Frac(62, 100)) @@ ("L" :> Frac(55, 100))
         @@ ("P" :> Frac(2, 10)),
  AC |-> ("L" :> Frac(77, 100)) @@ ("H" :> Frac(44, 100)),
  UI |-> ("N" :> Frac(85, 100)) @@ ("R" :> Frac(62, 100)),
  S |-> ("U" :> 0) @@ ("C" :> 0),
  C |-> ("N" :> 0) @@ ("L" :> Frac(22, 100)) @@ ("H" :> Frac(56, 100)),
  I |-> ("N" :> 0) @@ ("L" :> Frac(22, 100)) @@ ("H" :> Frac(56, 100)),
  A |-> ("N" :> 0) @@ ("L" :> Frac(22, 100)) @@ ("H" :> Frac(56, 100))
]

temporalMetricValueScores == [
  E |-> ("X" :> One) @@ ("U" :> Frac(91, 100)) @@ ("F" :> Frac(97, 100))
        @@ ("P" :> Frac(94, 100)) @@ ("H" :> One),
  RL |-> ("X" :> One) @@ ("O" :> Frac(95, 100)) @@ ("T" :> Frac(96, 100))
         @@ ("W" :> Frac(97, 100)) @@ ("U" :> One),
  RC |-> ("X" :> One) @@ ("U" :> Frac(92, 100)) @@ ("R" :> Frac(96, 100)) @@ ("C" :> One)
]

RequirementScores ==
  ("M" :> One) @@ ("L" :> Frac(5, 10)) @@ ("H" :> Frac(15, 10)) @@ ("X" :> One)

environmentalMetricValueScores == [
  CR |-> RequirementScores,
  IR |-> RequirementScores,
  AR |-> RequirementScores,
  MAV |-> baseMetricValueScores.AV,
  MAC |-> baseMetricValueScores.AC,
  MUI |-> baseMetricValueScores.UI,
  MS |-> baseMetricValueScores.S,
  MC |-> baseMetricValueScores.C,
  MI |-> baseMetricValueScores.I,
  MA |-> baseMetricValueScores.A
]

metricValueScores ==
  baseMetricValueScores @@ temporalMetricValueScores @@ environmentalMetricValueScores

\* the message thrown, "" when a number is returned
getPrivilegesRequiredNumericValueError(value, scopeValue) ==
  IF scopeValue # "U" /\ scopeValue # "C" /\ scopeValue # "X"
  THEN "Unknown Scope value"
  ELSE IF value \notin {"N", "L", "H"}
  THEN "Unknown PrivilegesRequired value"
  ELSE ""

\* the weights of an unchanged scope, whatever the scope
getPrivilegesRequiredNumericValue_unchangedOnly(value, scopeValue) ==
  CASE value = "N" -> Frac(85, 100)
    [] value = "L" -> Frac(62, 100)
    [] value = "H" -> Frac(27, 100)
    [] OTHER -> NaN

getPrivilegesRequiredNumericValue(value, scopeValue) ==
  CASE value = "N" -> Frac(85, 100)
    [] value = "L" -> IF scopeValue = "U" THEN Frac(62, 100) ELSE Frac(68, 100)
    [] value = "H" -> IF scopeValue = "U" THEN Frac(27, 100) ELSE Frac(5, 10)
    [] OTHER -> NaN

\* metricsMap.get(metric): undefined for an absent key
MapGet(map, metric) == IF metric \in DOMAIN map THEN map[metric] ELSE Undefined

\* the message thrown by getMetricNumericValue, "" when it returns
getMetricNumericValueError(metric, map) ==
  IF metric \notin DOMAIN map THEN "Missing metric"
  ELSE IF metric = "PR"
  THEN IF "S" \notin DOMAIN map THEN "Missing metric"
       ELSE getPrivilegesRequiredNumericValueError(map[metric], map["S"])
  ELSE IF metric = "MPR"
  THEN IF "MS" \notin DOMAIN map THEN "Missing metric"
       ELSE getPrivilegesRequiredNumericValueError(map[metric], map["MS"])
  ELSE ""

\* score[value]: undefined, and NaN in arithmetic, for a value without a weight
getMetricNumericValue(metric, map) ==
  LET value == map[metric]
  IN  IF metric = "PR" THEN getPrivilegesRequiredNumericValue(value, map["S"])
      ELSE IF metric = "MPR" THEN getPrivilegesRequiredNumericValue(value, map["MS"])
      ELSE IF value \in DOMAIN metricValueScores[metric]
      THEN metricValueScores[metric][value]
      ELSE NaN

calculateIss(map) ==
  LET confidentiality == getMetricNumericValue("C", map)
      integrity == getMetricNumericValue("I", map)
      availability == getMetricNumericValue("A", map)
  IN  Minus(One, Mul(Mul(Minus(One, confidentiality), Minus(One, integrity)),
                     Minus(One, availability)))

\* MISS held at 0.9 rather than 0.915
calculateMiss_lowerCap(map) ==
  MathMin(
    Minus(One,
          Mul(Mul(Minus(One, Mul(getMetricNumericValue("CR", map),
                                 getMetricNumericValue("MC", map))),
                  Minus(One, Mul(getMetricNumericValue("IR", map),
                                 getMetricNumericValue("MI", map)))),
              Minus(One, Mul(getMetricNumericValue("AR", map),
                             getMetricNumericValue("MA", map))))),
    Frac(9, 10))

calculateMiss(map) ==
  LET rConfidentiality == getMetricNumericValue("CR", map)
      mConfidentiality == getMetricNumericValue("MC", map)
      rIntegrity == getMetricNumericValue("IR", map)
      mIntegrity == getMetricNumericValue("MI", map)
      rAvailability == getMetricNumericValue("AR", map)
      mAvailability == getMetricNumericValue("MA", map)
  IN  MathMin(
        Minus(One,
              Mul(Mul(Minus(One, Mul(rConfidentiality, mConfidentiality)),
                      Minus(One, Mul(rIntegrity, mIntegrity))),
                  Minus(One, Mul(rAvailability, mAvailability)))),
        Frac(915, 1000))

\* the impact of an unchanged scope, whatever the scope
calculateImpact_unchangedOnly(map, iss) == Mul(Frac(642, 100), iss)

calculateImpact(map, iss) ==
  IF MapGet(map, "S") = "U"
  THEN Mul(Frac(642, 100), iss)
  ELSE Minus(Mul(Frac(752, 100), Minus(iss, Frac(29, 1000))),
             Mul(Frac(325, 100), MathPow(Minus(iss, Frac(2, 100)), 15)))

\* the constants of version 3.1, whatever the version
calculateModifiedImpact_oneVersion(map, miss, versionStr) ==
  IF MapGet(map, "MS") = "U"
  THEN Mul(Frac(642, 100), miss)
  ELSE Minus(Mul(Frac(752, 100), Minus(miss, Frac(29, 1000))),
             Mul(Frac(325, 100),
                 MathPow(Minus(Mul(miss, Frac(9731, 10000)), Frac(2, 100)), 13)))

calculateModifiedImpact(map, miss, versionStr) ==
  IF MapGet(map, "MS") = "U"
  THEN Mul(Frac(642, 100), miss)
  ELSE Minus(Mul(Frac(752, 100), Minus(miss, Frac(29, 1000))),
             Mul(Frac(325, 100),
                 MathPow(Minus(Mul(miss, IF versionStr = Version30 THEN One
                                         ELSE Frac(9731, 10000)),
                               Frac(2, 100)),
                         IF versionStr = Version30 THEN 15 ELSE 13)))

calculateExploitability(map) ==
  Mul(Mul(Mul(Mul(Frac(822, 100), getMetricNumericValue("AV", map)),
              getMetricNumericValue("AC", map)),
          getMetricNumericValue("PR", map)),
      getMetricNumericValue("UI", map))

calculateModifiedExploitability(map) ==
  Mul(Mul(Mul(Mul(Frac(822, 100), getMetricNumericValue("MAV", map)),
              getMetricNumericValue("MAC", map)),
          getMetricNumericValue("MPR", map)),
      getMetricNumericValue("MUI", map))

\* Math.round(input * 100000), then up to the next tenth
\* the next tenth, also from a tenth
roundUp_nextTenth(input) ==
  IF IsNaN(input) THEN NaN
  ELSE (((input + (Scale \div 200000)) \div (Scale \div 100000)) \div 10000 + 1) * Tenth

roundUp(input) ==
  IF IsNaN(input) THEN NaN
  ELSE LET intInput == (input + (Scale \div 200000)) \div (Scale \div 100000)
       IN  IF intInput % 10000 = 0
           THEN intInput * (Scale \div 100000)
           ELSE ((intInput \div 10000) + 1) * Tenth

-----------------------------------------------------------------------------
(* score-calculator.ts: defaults *)

modifiedMetricsMap ==
  [MAV |-> "AV", MAC |-> "AC", MPR |-> "PR", MUI |-> "UI",
   MS |-> "S", MC |-> "C", MI |-> "I", MA |-> "A"]

\* metricsMap.set(metric, value)
MapSet(map, metric, value) ==
  [k \in DOMAIN map \cup {metric} |-> IF k = metric THEN value ELSE map[k]]

RECURSIVE PopulateTemporal(_, _)
PopulateTemporal(map, i) ==
  IF i > Len(temporalMetrics) THEN map
  ELSE PopulateTemporal(
         IF temporalMetrics[i] \notin DOMAIN map
         THEN MapSet(map, temporalMetrics[i], "X") ELSE map,
         i + 1)

populateTemporalMetricDefaults(map) == PopulateTemporal(map, 1)

\* a turn that leaves a metric that is not defined at X
PopulateEnvironmentalMetric_keepX(map, metric) ==
  IF metric \notin DOMAIN map THEN MapSet(map, metric, "X") ELSE map

\* one turn of the forEach of populateEnvironmentalMetricDefaults
PopulateEnvironmentalMetric(map, metric) ==
  LET withX == IF metric \notin DOMAIN map THEN MapSet(map, metric, "X") ELSE map
  IN  IF withX[metric] = "X"
      THEN MapSet(withX, metric,
             IF metric \in DOMAIN modifiedMetricsMap
                /\ modifiedMetricsMap[metric] \in DOMAIN withX
             THEN withX[modifiedMetricsMap[metric]]
             ELSE "X")
      ELSE withX

RECURSIVE PopulateEnvironmental(_, _)
PopulateEnvironmental(map, i) ==
  IF i > Len(environmentalMetrics) THEN map
  ELSE PopulateEnvironmental(PopulateEnvironmentalMetric(map, environmentalMetrics[i]), i + 1)

populateEnvironmentalMetricDefaults(map) == PopulateEnvironmental(map, 1)

-----------------------------------------------------------------------------
(* score-calculator.ts: the v3 scores *)

\* the first message thrown by the calls to getMetricNumericValue, "" if none
FirstError(metrics, map) ==
  IF \E i \in 1..Len(metrics) : getMetricNumericValueError(metrics[i], map) # ""
  THEN getMetricNumericValueError(
         metrics[CHOOSE i \in 1..Len(metrics) :
                   /\ getMetricNumericValueError(metrics[i], map) # ""
                   /\ \A j \in 1..(i - 1) : getMetricNumericValueError(metrics[j], map) = ""],
         map)
  ELSE ""

\* the sub-scores rounded whatever the impact
ScoreResult_alwaysRounded(score, impact, exploitability) ==
  [score |-> score,
   impact |-> roundUp(impact),
   exploitability |-> roundUp(exploitability)]

\* a ScoreResult, without the metricsMap it carries
ScoreResult(score, impact, exploitability) ==
  [score |-> score,
   impact |-> IF LeqZero(impact) THEN 0 ELSE roundUp(impact),
   exploitability |-> IF LeqZero(impact) THEN 0 ELSE roundUp(exploitability)]

\* const { score } = result; return score
ScoreOf(scoreResult) ==
  IF scoreResult.kind = "return" THEN Return(scoreResult.value.score) ELSE scoreResult

calculateBaseResult(cvssString) ==
  LET v == validate(cvssString)
      map == v.metricsMap
      iss == calculateIss(map)
      impact == calculateImpact(map, iss)
      exploitability == calculateExploitability(map)
      scopeUnchanged == MapGet(map, "S") = "U"
      score == IF LeqZero(impact) THEN 0
               ELSE IF scopeUnchanged
               THEN roundUp(MathMin(Add(impact, exploitability), Frac(10, 1)))
               ELSE roundUp(MathMin(Mul(Frac(108, 100), Add(impact, exploitability)),
                                    Frac(10, 1)))
      thrown == FirstError(<<"C", "I", "A", "AV", "AC", "PR", "UI">>, map)
  IN  IF ~v.ok THEN Throw(v.error)
      ELSE IF thrown # "" THEN Throw(thrown)
      ELSE Return(ScoreResult(score, impact, exploitability))

calculateEnvironmentalResult(cvssString) ==
  LET validationResult == validate(cvssString)
      versionStr == validationResult.versionStr
      map == populateEnvironmentalMetricDefaults(
               populateTemporalMetricDefaults(validationResult.metricsMap))
      miss == calculateMiss(map)
      impact == calculateModifiedImpact(map, miss, versionStr)
      exploitability == calculateModifiedExploitability(map)
      scopeUnchanged == MapGet(map, "MS") = "U"
      rounded == IF scopeUnchanged
                 THEN roundUp(MathMin(Add(impact, exploitability), Frac(10, 1)))
                 ELSE roundUp(MathMin(Mul(Frac(108, 100), Add(impact, exploitability)),
                                      Frac(10, 1)))
      score == IF LeqZero(impact) THEN 0
               ELSE roundUp(Mul(Mul(Mul(rounded, getMetricNumericValue("E", map)),
                                    getMetricNumericValue("RL", map)),
                                getMetricNumericValue("RC", map)))
      thrown == FirstError(<<"CR", "MC", "IR", "MI", "AR", "MA",
                             "MAV", "MAC", "MPR", "MUI">>, map)
  IN  IF ~validationResult.ok THEN Throw(validationResult.error)
      ELSE IF thrown # "" THEN Throw(thrown)
      ELSE Return(ScoreResult(score, impact, exploitability))

\* the product of the base score and the weights, not rounded
calculateTemporalResult_notRounded(cvssString) ==
  LET v == validate(cvssString)
      map == populateTemporalMetricDefaults(v.metricsMap)
      base == calculateBaseResult(cvssString)
      tempScore == Mul(Mul(Mul(base.value.score, getMetricNumericValue("RC", map)),
                           getMetricNumericValue("E", map)),
                       getMetricNumericValue("RL", map))
  IN  IF ~v.ok THEN Throw(v.error)
      ELSE IF base.kind = "throw" THEN base
      ELSE Return([base.value EXCEPT !.score = tempScore])

calculateTemporalResult(cvssString) ==
  LET v == validate(cvssString)
      map == populateTemporalMetricDefaults(v.metricsMap)
      base == calculateBaseResult(cvssString)
      tempScore == roundUp(Mul(Mul(Mul(base.value.score, getMetricNumericValue("RC", map)),
                                   getMetricNumericValue("E", map)),
                               getMetricNumericValue("RL", map)))
  IN  IF ~v.ok THEN Throw(v.error)
      ELSE IF base.kind = "throw" THEN base
      ELSE Return([base.value EXCEPT !.score = tempScore])

-----------------------------------------------------------------------------
(* score-calculator.ts: the exported score functions *)

\* versionPrefix.startsWith(...) on the first segment; "" stands for the throw
detectCvssVersion(cvssString) ==
  IF StartsWith(cvssString.prefix, V4Prefix) THEN "4.0"
  ELSE IF StartsWith(cvssString.prefix, CvssPrefix \o <<"3", ".">>) THEN "3.1"
  ELSE ""

calculateBaseScore(cvssString, tieUp) ==
  LET version == detectCvssVersion(cvssString)
  IN  IF version = "" THEN Throw("Unsupported CVSS version")
      ELSE IF version = "4.0" THEN calculateBaseScoreV4(cvssString, tieUp)
      ELSE ScoreOf(calculateBaseResult(cvssString))

calculateEnvironmentalScore(cvssString) ==
  ScoreOf(calculateEnvironmentalResult(cvssString))

\* the last score given by any of the score functions, kept and given again
calculateTemporalScore_lastScore(cvssString) ==
  IF op \in {"calculateBaseScore", "calculateTemporalScore", "calculateEnvironmentalScore"}
  THEN result
  ELSE ScoreOf(calculateTemporalResult(cvssString))

calculateTemporalScore(cvssString) == ScoreOf(calculateTemporalResult(cvssString))

-----------------------------------------------------------------------------
(* The vector strings the functions are called with: a few well-formed
   vectors, and what a bounded number of edits makes of them. *)

Vector(prefix, segs) == [prefix |-> prefix, segs |-> segs]

Range(seq) == {seq[i] : i \in 1..Len(seq)}

Keys(cvssStr) == {cvssStr.segs[i][1] : i \in 1..Len(cvssStr.segs)}

IsV4Tagged(cvssStr) == StartsWith(cvssStr.prefix, CvssPrefix \o <<"4">>)

V3Low ==
  Vector(CvssPrefix \o Version31,
         <<<<"AV", "N">>, <<"AC", "L">>, <<"PR", "H">>, <<"UI", "N">>,
           <<"S", "U">>, <<"C", "L">>, <<"I", "L">>, <<"A", "N">>>>)

V3Changed ==
  Vector(CvssPrefix \o Version30,
         <<<<"AV", "N">>, <<"AC", "L">>, <<"PR", "N">>, <<"UI", "N">>,
           <<"S", "C">>, <<"C", "H">>, <<"I", "N">>, <<"A", "N">>>>)

V3Full ==
  Vector(CvssPrefix \o Version31,
         <<<<"AV", "A">>, <<"AC", "H">>, <<"PR", "L">>, <<"UI", "R">>,
           <<"S", "C">>, <<"C", "H">>, <<"I", "L">>, <<"A", "H">>,
           <<"E", "F">>, <<"RL", "W">>, <<"CR", "H">>, <<"MS", "U">>, <<"MC", "L">>>>)

V4Best ==
  Vector(V4Prefix,
         <<<<"AV", "N">>, <<"AC", "L">>, <<"AT", "N">>, <<"PR", "N">>, <<"UI", "N">>,
           <<"VC", "H">>, <<"VI", "H">>, <<"VA", "H">>,
           <<"SC", "H">>, <<"SI", "H">>, <<"SA", "H">>, <<"MSI", "S">>>>)

V4Mid ==
  Vector(V4Prefix,
         <<<<"AV", "A">>, <<"AC", "H">>, <<"AT", "P">>, <<"PR", "L">>, <<"UI", "P">>,
           <<"VC", "L">>, <<"VI", "H">>, <<"VA", "N">>,
           <<"SC", "L">>, <<"SI", "N">>, <<"SA", "H">>>>)

V4NoImpact ==
  Vector(V4Prefix,
         <<<<"AV", "L">>, <<"AC", "L">>, <<"AT", "P">>, <<"PR", "H">>, <<"UI", "A">>,
           <<"VC", "N">>, <<"VI", "N">>, <<"VA", "N">>,
           <<"SC", "N">>, <<"SI", "N">>, <<"SA", "N">>>>)

V4Worst ==
  Vector(V4Prefix,
         <<<<"AV", "P">>, <<"AC", "H">>, <<"AT", "P">>, <<"PR", "H">>, <<"UI", "A">>,
           <<"VC", "L">>, <<"VI", "L">>, <<"VA", "L">>,
           <<"SC", "L">>, <<"SI", "L">>, <<"SA", "L">>,
           <<"E", "U">>, <<"CR", "L">>, <<"IR", "L">>, <<"AR", "L">>>>)

Seeds == {V3Low, V3Changed, V3Full, V4Best, V4Mid, V4NoImpact, V4Worst}

\* the metrics of the vector's version, in the catalog's order, and their values
CatalogKeys(cvssStr) ==
  IF IsV4Tagged(cvssStr)
  THEN [i \in 1..Len(expectedMetricOrder) |-> expectedMetricOrder[i][1]]
  ELSE allKnownMetrics

CatalogValues(cvssStr, key) ==
  IF IsV4Tagged(cvssStr)
  THEN IF FindExpectedEntry(key) = 0 THEN {}
       ELSE Range(expectedMetricOrder[FindExpectedEntry(key)][2])
  ELSE IF key \in DOMAIN allKnownMetricsValues
       THEN Range(allKnownMetricsValues[key]) ELSE {}

OptionalKeys(cvssStr) ==
  IF IsV4Tagged(cvssStr)
  THEN Range(CatalogKeys(cvssStr)) \ Range(mandatoryMetrics)
  ELSE Range(temporalMetrics) \cup Range(environmentalMetrics)

CatalogIndex(cvssStr, key) ==
  IF key \in Range(CatalogKeys(cvssStr))
  THEN CHOOSE i \in 1..Len(CatalogKeys(cvssStr)) : CatalogKeys(cvssStr)[i] = key
  ELSE Len(CatalogKeys(cvssStr)) + 1

InsertAt(segs, pos, seg) ==
  SubSeq(segs, 1, pos - 1) \o <<seg>> \o SubSeq(segs, pos, Len(segs))

RemoveAt(segs, pos) == SubSeq(segs, 1, pos - 1) \o SubSeq(segs, pos + 1, Len(segs))

\* the vector with the metric written after the metrics that precede it in the catalog
WithMetric(cvssStr, key, value) ==
  LET before == {i \in 1..Len(cvssStr.segs) :
                   CatalogIndex(cvssStr, cvssStr.segs[i][1]) < CatalogIndex(cvssStr, key)}
  IN  Vector(cvssStr.prefix, InsertAt(cvssStr.segs, Cardinality(before) + 1, <<key, value>>))

WithValue(cvssStr, i, value) ==
  Vector(cvssStr.prefix, [cvssStr.segs EXCEPT ![i] = <<cvssStr.segs[i][1], value>>])

\* another catalog value for one metric of the vector
Changes(cvssStr) ==
  UNION {{WithValue(cvssStr, i, value) :
            value \in CatalogValues(cvssStr, cvssStr.segs[i][1])} :
         i \in 1..Len(cvssStr.segs)}

\* one more optional metric, in its place, with a catalog value
Inserts(cvssStr) ==
  UNION {{WithMetric(cvssStr, key, value) : value \in CatalogValues(cvssStr, key)} :
         key \in OptionalKeys(cvssStr) \ Keys(cvssStr)}

\* one more optional metric, in its place, written as not defined
NotDefined(cvssStr) ==
  {WithMetric(cvssStr, key, "X") : key \in OptionalKeys(cvssStr) \ Keys(cvssStr)}

OddPrefixes ==
  {V4Prefix, CvssPrefix \o Version31, CvssPrefix \o Version30,
   V4Prefix \o <<"x">>, CvssPrefix \o <<"4">>, CvssPrefix \o <<"4", ".", "1">>,
   CvssPrefix \o <<"3", ".", "5">>, CvssPrefix \o <<"3", ".">>,
   CvssPrefix \o <<"2", ".", "0">>, CvssPrefix, <<"c", "v", "s", "s", ":", "3", ".", "1">>,
   <<"3", ".", "1">>, <<>>}

\* one defect of a segment that leaves it a key and a value: repeated, moved
\* behind its successor, given a value outside the catalog, or unknown
SegmentDefects(cvssStr) ==
  LET segs == cvssStr.segs
      at == 1..Len(segs)
  IN  {Vector(cvssStr.prefix, segs \o <<segs[i]>>) : i \in at}
      \cup {Vector(cvssStr.prefix, InsertAt(RemoveAt(segs, i), i + 1, segs[i])) :
              i \in 1..(Len(segs) - 1)}
      \cup {WithValue(cvssStr, i, "Z") : i \in at}
      \cup {Vector(cvssStr.prefix, InsertAt(segs, i, <<"ZZ", "N">>)) :
              i \in {1, Len(segs) + 1}}

\* one defect: a segment dropped, repeated, moved, cut, emptied or unknown,
\* a value outside the catalog, another first segment
Defects(cvssStr) ==
  LET segs == cvssStr.segs
      at == 1..Len(segs)
  IN  SegmentDefects(cvssStr)
      \cup {Vector(cvssStr.prefix, RemoveAt(segs, i)) : i \in at}
      \cup {Vector(cvssStr.prefix, [segs EXCEPT ![i] = <<segs[i][1]>>]) : i \in at}
      \cup {Vector(cvssStr.prefix, [segs EXCEPT ![i] = <<segs[i][1], segs[i][2], "N">>]) :
              i \in at}
      \cup {WithValue(cvssStr, i, "") : i \in at}
      \cup {Vector(cvssStr.prefix, InsertAt(segs, i, <<"">>)) : i \in 1..(Len(segs) + 1)}
      \cup {Vector(prefix, segs) : prefix \in OddPrefixes}
      \cup {Vector(prefix, <<>>) : prefix \in OddPrefixes}

\* two defects of segments in one v4 vector
TwoDefects == UNION {SegmentDefects(v) : v \in SegmentDefects(V4Mid)}

\* A v4 vector for every macrovector: the values of AV, PR, UI for each EQ1,
\* of AC, AT for each EQ2, of VC, VI, VA for each EQ3, of SC, SI, SA and MSI
\* for each EQ4, each E, and requirements with and without a high CR.
MacroVectorSeeds ==
  {Vector(V4Prefix,
          eq1 \o eq2 \o <<<<"UI", "N">>>> \o eq3 \o eq4 \o <<<<"E", e>>>>
          \o <<<<"CR", cr>>, <<"IR", "M">>, <<"AR", "L">>>> \o msi) :
     eq1 \in {<<<<"AV", "N">>>>, <<<<"AV", "L">>>>, <<<<"AV", "P">>>>},
     eq2 \in {<<<<"AC", "L">>, <<"AT", "N">>, <<"PR", "N">>>>,
              <<<<"AC", "H">>, <<"AT", "P">>, <<"PR", "N">>>>},
     eq3 \in {<<<<"VC", "H">>, <<"VI", "H">>, <<"VA", "L">>>>,
              <<<<"VC", "H">>, <<"VI", "L">>, <<"VA", "N">>>>,
              <<<<"VC", "L">>, <<"VI", "L">>, <<"VA", "N">>>>},
     eq4 \in {<<<<"SC", "H">>, <<"SI", "L">>, <<"SA", "N">>>>,
              <<<<"SC", "L">>, <<"SI", "L">>, <<"SA", "N">>>>},
     msi \in {<<>>, <<<<"MSI", "S">>>>},
     e \in {"A", "P", "U"},
     cr \in {"H", "M"}}

\* A v4 vector for every combination of the values within one equivalence
\* class, the other classes at their highest: AV, PR, UI; AC, AT; VC, VI, VA
\* with CR, IR, AR; SC, SI, SA with MSI and MSA.
SeverityDistanceSeeds ==
  {Vector(V4Prefix,
          <<<<"AV", av>>, <<"AC", ac>>, <<"AT", at>>, <<"PR", pr>>, <<"UI", ui>>,
            <<"VC", "H">>, <<"VI", "H">>, <<"VA", "H">>,
            <<"SC", "H">>, <<"SI", "H">>, <<"SA", "H">>>>) :
     av \in {"N", "A", "L", "P"}, pr \in {"N", "L", "H"}, ui \in {"N", "P", "A"},
     ac \in {"L", "H"}, at \in {"N", "P"}}
  \cup
  {Vector(V4Prefix,
          <<<<"AV", "N">>, <<"AC", "H">>, <<"AT", "N">>, <<"PR", "N">>, <<"UI", "N">>,
            <<"VC", vc>>, <<"VI", vi>>, <<"VA", va>>,
            <<"SC", "H">>, <<"SI", "H">>, <<"SA", "H">>,
            <<"CR", cr>>, <<"IR", ir>>, <<"AR", ar>>>>) :
     vc \in {"H", "L", "N"}, vi \in {"H", "L", "N"}, va \in {"H", "L", "N"},
     cr \in {"H", "M", "L"}, ir \in {"H", "M", "L"}, ar \in {"H", "M", "L"}}
  \cup
  {Vector(V4Prefix,
          <<<<"AV", "N">>, <<"AC", "H">>, <<"AT", "P">>, <<"PR", "N">>, <<"UI", "N">>,
            <<"VC", "H">>, <<"VI", "H">>, <<"VA", "H">>,
            <<"SC", sc>>, <<"SI", si>>, <<"SA", sa>>>> \o msi \o msa) :
     sc \in {"H", "L", "N"}, si \in {"H", "L", "N"}, sa \in {"H", "L", "N"},
     msi \in {<<>>, <<<<"MSI", "S">>>>}, msa \in {<<>>, <<<<"MSA", "S">>>>}}

\* A v3.x vector of each version for the ends of the exploitability range,
\* each scope, and confidentiality, integrity and availability impacts from
\* none to all high.
V3BaseSeeds ==
  {Vector(CvssPrefix \o version,
          <<<<"AV", reach[1]>>, <<"AC", reach[2]>>, <<"PR", pr>>, <<"UI", reach[3]>>,
            <<"S", s>>, <<"C", cia[1]>>, <<"I", cia[2]>>, <<"A", cia[3]>>>>) :
     version \in {Version30, Version31},
     reach \in {<<"N", "L", "N">>, <<"P", "H", "R">>},
     pr \in {"N", "H"},
     s \in {"U", "C"},
     cia \in {<<"N", "N", "N">>, <<"L", "N", "N">>, <<"N", "H", "N">>,
              <<"L", "L", "L">>, <<"H", "L", "N">>, <<"H", "H", "H">>}}

\* the segments of an optional metric: none when it is absent
Optional(key, value) == IF value = "" THEN <<>> ELSE <<<<key, value>>>>

\* A v3.x vector of an unchanged and of a changed scope with each
\* combination of temporal values, absent and not defined among them.
V3TemporalSeeds ==
  {Vector(base.prefix,
          base.segs \o Optional("E", e) \o Optional("RL", rl) \o Optional("RC", rc)) :
     base \in {V3Low, V3Changed},
     e \in {"", "X", "H", "F", "U"},
     rl \in {"", "X", "U", "O", "T"},
     rc \in {"", "X", "C", "R"}}

\* the metrics of a sequence, each written as not defined
AllNotDefined(metrics) == [i \in 1..Len(metrics) |-> <<metrics[i], "X">>]

\* A v3.x vector of an unchanged scope with the requirements, the modified
\* metrics, or every environmental metric written as not defined, with and
\* without temporal metrics.
V3EnvironmentalSeeds ==
  {Vector(base.prefix, base.segs \o temporal \o AllNotDefined(notDefined)) :
     base \in {v \in V3BaseSeeds : v.segs[1][2] = "N" /\ v.segs[5][2] = "U"} \cup {V3Low},
     temporal \in {<<>>, <<<<"E", "F">>, <<"RL", "X">>, <<"RC", "R">>>>},
     notDefined \in {environmentalMetrics,
                     <<"CR", "IR", "AR">>,
                     <<"MAV", "MAC", "MPR", "MUI", "MS", "MC", "MI", "MA">>}}

MaxChanged == 1
MaxNotDefined == 1

RECURSIVE Changed(_, _)
Changed(S, n) ==
  IF n = 0 THEN S ELSE Changed(S \cup UNION {Changes(v) : v \in S}, n - 1)

RECURSIVE WithNotDefined(_, _)
WithNotDefined(S, n) ==
  IF n = 0 THEN S ELSE WithNotDefined(S \cup UNION {NotDefined(v) : v \in S}, n - 1)

\* the seeds, with up to MaxChanged values changed, with up to MaxNotDefined
\* optional metrics added as X, with one optional metric added at any value,
\* with one defect, one seed with two, a vector for every macrovector, and
\* a vector for every combination of values within an equivalence class, and
\* v3.x vectors across the range of the base and of the temporal metrics and
\* with environmental metrics that are not defined
Vectors ==
  Changed(Seeds, MaxChanged) \cup WithNotDefined(Seeds, MaxNotDefined)
  \cup UNION {Inserts(v) : v \in Seeds}
  \cup UNION {Defects(v) : v \in Seeds}
  \cup TwoDefects
  \cup MacroVectorSeeds
  \cup SeverityDistanceSeeds
  \cup V3BaseSeeds
  \cup V3TemporalSeeds
  \cup V3EnvironmentalSeeds

\* The numbers roundUp and calculateQualScore are called with: up to
\* MaxTenths tenths, and a little more.  input * 100000 is computed in
\* doubles, so a number whose product lies exactly halfway between two
\* integers is left out: the rounding error decides it.
MaxTenths == 100

Offsets ==
  {0, 1, 499, 501, 1000, Tenth \div 2, Tenth - 1000, Tenth - 499, Tenth - 1}

Numbers == {k * Tenth + d : k \in 0..MaxTenths, d \in Offsets}

\* the caller holds a vector, not a number
NoNumber == 0 - Scale

\* the caller holds a number, not a vector
NoVector == Vector(<<>>, <<>>)

\* The rounding error of a vector's v4 score is fixed by the vector.  It
\* matters only when the score lies on a tie, and only for a vector that goes
\* to the v4 engine.
TieDirections(cvssStr) ==
  IF StartsWith(cvssStr.prefix, V4Prefix) THEN BOOLEAN ELSE {TRUE}

-----------------------------------------------------------------------------
(* The calls.  vector or number is what the caller passes; op and result
   are the last call and what it gave; metricsMap is the Map that call
   returned or was given, as the call left it, empty for a call that has
   none.  firstScore is an observer's record of the first score call. *)

ScoreOps == {"calculateBaseScore", "calculateTemporalScore", "calculateEnvironmentalScore"}

\* no record is kept
NotKept == [op |-> "off", result |-> NoResult, between |-> FALSE]

\* a record is kept, and no score function has been called yet
NothingYet == [op |-> "none", result |-> NoResult, between |-> FALSE]

\* the record after a call: the first call of a score function and what it
\* gave, and whether another function has been called since
Recorded(called, given) ==
  IF firstScore = NotKept THEN NotKept
  ELSE IF firstScore = NothingYet
  THEN IF called \in ScoreOps
       THEN [op |-> called, result |-> given, between |-> FALSE]
       ELSE NothingYet
  ELSE [firstScore EXCEPT !.between = @ \/ called # firstScore.op]

\* the vectors of the behaviours in which a record is kept
HistoryVectors ==
  Seeds \cup UNION {Inserts(v) : v \in Seeds} \cup UNION {Defects(v) : v \in Seeds}

Start(record, vectors) ==
  /\ \/ /\ vector \in vectors
        /\ number = NoNumber
        /\ tieRoundsUp \in TieDirections(vector)
     \/ /\ vector = NoVector
        /\ number \in Numbers
        /\ tieRoundsUp = TRUE
  /\ op = "none"
  /\ result = NoResult
  /\ metricsMap = EmptyMap
  /\ firstScore = record

Init == Start(NotKept, Vectors)

InitHistory == Start(NothingYet, HistoryVectors)

CalculateBaseScore ==
  /\ number = NoNumber
  /\ op' = "calculateBaseScore"
  /\ result' = calculateBaseScore(vector, tieRoundsUp)
  /\ metricsMap' = EmptyMap
  /\ firstScore' = Recorded(op', result')
  /\ UNCHANGED <<vector, number, tieRoundsUp>>

\* the ScoreResult: the scores in result, its Map in metricsMap
CalculateBaseResult ==
  /\ number = NoNumber
  /\ op' = "calculateBaseResult"
  /\ result' = calculateBaseResult(vector)
  /\ metricsMap' = IF result'.kind = "return" THEN validate(vector).metricsMap
                   ELSE EmptyMap
  /\ firstScore' = Recorded(op', result')
  /\ UNCHANGED <<vector, number, tieRoundsUp>>

CalculateTemporalScore ==
  /\ number = NoNumber
  /\ op' = "calculateTemporalScore"
  /\ result' = calculateTemporalScore(vector)
  /\ metricsMap' = EmptyMap
  /\ firstScore' = Recorded(op', result')
  /\ UNCHANGED <<vector, number, tieRoundsUp>>

CalculateEnvironmentalScore ==
  /\ number = NoNumber
  /\ op' = "calculateEnvironmentalScore"
  /\ result' = calculateEnvironmentalScore(vector)
  /\ metricsMap' = EmptyMap
  /\ firstScore' = Recorded(op', result')
  /\ UNCHANGED <<vector, number, tieRoundsUp>>

Validate ==
  /\ number = NoNumber
  /\ op' = "validate"
  /\ LET v == validate(vector)
     IN  IF v.ok
         THEN /\ result' = Return([isTemporal |-> v.isTemporal,
                                   isEnvironmental |-> v.isEnvironmental,
                                   versionStr |-> v.versionStr])
              /\ metricsMap' = v.metricsMap
         ELSE /\ result' = Throw(v.error)
              /\ metricsMap' = EmptyMap
  /\ firstScore' = Recorded(op', result')
  /\ UNCHANGED <<vector, number, tieRoundsUp>>

ValidateVectorV4 ==
  /\ number = NoNumber
  /\ op' = "validateVectorV4"
  /\ result' = Return(validateVectorV4(vector))
  /\ metricsMap' = EmptyMap
  /\ firstScore' = Recorded(op', result')
  /\ UNCHANGED <<vector, number, tieRoundsUp>>

\* the caller passes on the Map it has just been given
PopulateTemporalMetricDefaults ==
  /\ metricsMap # EmptyMap
  /\ op' = "populateTemporalMetricDefaults"
  /\ metricsMap' = populateTemporalMetricDefaults(metricsMap)
  /\ result' = Return(metricsMap')
  /\ firstScore' = Recorded(op', result')
  /\ UNCHANGED <<vector, number, tieRoundsUp>>

PopulateEnvironmentalMetricDefaults ==
  /\ metricsMap # EmptyMap
  /\ op' = "populateEnvironmentalMetricDefaults"
  /\ metricsMap' = populateEnvironmentalMetricDefaults(metricsMap)
  /\ result' = Return(metricsMap')
  /\ firstScore' = Recorded(op', result')
  /\ UNCHANGED <<vector, number, tieRoundsUp>>

CalculateExploitability ==
  /\ metricsMap # EmptyMap
  /\ op' = "calculateExploitability"
  /\ LET thrown == FirstError(<<"AV", "AC", "PR", "UI">>, metricsMap)
     IN  result' = IF thrown # "" THEN Throw(thrown)
                   ELSE Return(calculateExploitability(metricsMap))
  /\ firstScore' = Recorded(op', result')
  /\ UNCHANGED <<vector, number, tieRoundsUp, metricsMap>>

CalculateModifiedExploitability ==
  /\ metricsMap # EmptyMap
  /\ op' = "calculateModifiedExploitability"
  /\ LET thrown == FirstError(<<"MAV", "MAC", "MPR", "MUI">>, metricsMap)
     IN  result' = IF thrown # "" THEN Throw(thrown)
                   ELSE Return(calculateModifiedExploitability(metricsMap))
  /\ firstScore' = Recorded(op', result')
  /\ UNCHANGED <<vector, number, tieRoundsUp, metricsMap>>

RoundUp ==
  /\ number # NoNumber
  /\ op' = "roundUp"
  /\ result' = Return(roundUp(number))
  /\ firstScore' = Recorded(op', result')
  /\ UNCHANGED <<vector, number, tieRoundsUp, metricsMap>>

CalculateQualScore ==
  /\ number # NoNumber
  /\ op' = "calculateQualScore"
  /\ result' = Return(calculateQualScore(number))
  /\ firstScore' = Recorded(op', result')
  /\ UNCHANGED <<vector, number, tieRoundsUp, metricsMap>>

Next ==
  \/ CalculateBaseScore
  \/ CalculateBaseResult
  \/ CalculateTemporalScore
  \/ CalculateEnvironmentalScore
  \/ Validate
  \/ ValidateVectorV4
  \/ PopulateTemporalMetricDefaults
  \/ PopulateEnvironmentalMetricDefaults
  \/ CalculateExploitability
  \/ CalculateModifiedExploitability
  \/ RoundUp
  \/ CalculateQualScore

Spec == Init /\ [][Next]_vars

SpecHistory == InitHistory /\ [][Next]_vars

-----------------------------------------------------------------------------
(* Properties.  What a property says of a vector is read off the vector as
   written: its first segment and its key:value segments. *)

Returned == result.kind = "return"

\* the text after "CVSS:" in the first segment, Null when it does not start so
VersionTag(cvssStr) ==
  IF Len(cvssStr.prefix) >= 5 /\ SubSeq(cvssStr.prefix, 1, 5) = <<"C", "V", "S", "S", ":">>
  THEN SubSeq(cvssStr.prefix, 6, Len(cvssStr.prefix))
  ELSE Null

\* the value written for a metric of the vector
Written(cvssStr, key) ==
  LET i == CHOOSE j \in 1..Len(cvssStr.segs) : cvssStr.segs[j][1] = key
  IN  IF Len(cvssStr.segs[i]) >= 2 THEN cvssStr.segs[i][2] ELSE Undefined

IsWritten(cvssStr, key) == \E j \in 1..Len(cvssStr.segs) : cvssStr.segs[j][1] = key

V4BaseKeys == {"AV", "AC", "AT", "PR", "UI", "VC", "VI", "VA", "SC", "SI", "SA"}
V4ImpactKeys == {"VC", "VI", "VA", "SC", "SI", "SA"}
V4ModifiedOf ==
  [AV |-> "MAV", AC |-> "MAC", AT |-> "MAT", PR |-> "MPR", UI |-> "MUI",
   VC |-> "MVC", VI |-> "MVI", VA |-> "MVA", SC |-> "MSC", SI |-> "MSI", SA |-> "MSA"]
V4ModifiedKeys == {V4ModifiedOf[b] : b \in V4BaseKeys}

\* a modified metric that is written and is not X
Overrides(cvssStr, base) ==
  /\ IsWritten(cvssStr, V4ModifiedOf[base])
  /\ Written(cvssStr, V4ModifiedOf[base]) # "X"

\* the effective value of a base metric: its modified metric's if that is
\* written and not X, its own otherwise
Effective(cvssStr, base) ==
  IF Overrides(cvssStr, base) THEN Written(cvssStr, V4ModifiedOf[base])
  ELSE Written(cvssStr, base)

\* the call was calculateBaseScore on a CVSS:4.0 vector, and it returned
V4Scored ==
  /\ op = "calculateBaseScore"
  /\ Returned
  /\ vector.prefix = <<"C", "V", "S", "S", ":", "4", ".", "0">>

\* C1: whenever calculateBaseScore, calculateTemporalScore or
\* calculateEnvironmentalScore returns, the value is a number between 0.0 and
\* 10.0 that is a whole multiple of 0.1 (never NaN).
C1_ScoreInRange ==
  (op \in ScoreOps /\ Returned) =>
     /\ ~IsNaN(result.value)
     /\ 0 <= result.value
     /\ result.value <= 10 * Scale
     /\ result.value % Tenth = 0

\* C2, as stated: an accepted CVSS:4.0 vector whose VC, VI, VA, SC, SI and SA
\* are all written as N scores 0.0, whatever its other metrics, the modified
\* ones included.
C2_WrittenNoImpactScoresZero ==
  (V4Scored /\ \A k \in V4ImpactKeys : Written(vector, k) = "N") => result.value = 0

\* C2, amended: an accepted CVSS:4.0 vector whose effective VC, VI, VA, SC, SI
\* and SA are all N scores 0.0, whatever its other metrics.
C2_EffectiveNoImpactScoresZero ==
  (V4Scored /\ \A k \in V4ImpactKeys : Effective(vector, k) = "N") => result.value = 0

\* a vector with a modified metric that is not X, no effective impact, scored 0.0
C2_Witness ==
  /\ V4Scored
  /\ \A k \in V4ImpactKeys : Effective(vector, k) = "N"
  /\ \E b \in V4BaseKeys : Overrides(vector, b)
  /\ result.value = 0

\* C3: an accepted CVSS:4.0 vector whose MacroVector is 000000 scores 10.0,
\* whatever VA, CR, IR, AR, SC, SI, SA are and whichever of MSI and MSA is S.
C3_BestMacroVectorScoresTen ==
  (V4Scored /\ macroVector(parseVectorV4(vector)) = <<0, 0, 0, 0, 0, 0>>)
     => result.value = 10 * Scale

\* a vector of MacroVector 000000 with a lower VA, SC or requirement, scored 10.0
C3_Witness ==
  /\ V4Scored
  /\ macroVector(parseVectorV4(vector)) = <<0, 0, 0, 0, 0, 0>>
  /\ \/ Written(vector, "VA") # "H"
     \/ Written(vector, "SC") # "H"
     \/ \E k \in {"CR", "IR", "AR"} : IsWritten(vector, k) /\ Written(vector, k) \in {"M", "L"}
  /\ result.value = 10 * Scale

\* The published CVSS v3 base equations, on the vector as written.
V30Tag == <<"3", ".", "0">>
V31Tag == <<"3", ".", "1">>
V40Tag == <<"4", ".", "0">>

V3BaseKeys == {"AV", "AC", "PR", "UI", "S", "C", "I", "A"}

\* a v3.x vector with each base metric once, every metric of the catalog at
\* most once, and every value one its metric allows
ValidV3(cvssStr) ==
  /\ VersionTag(cvssStr) \in {V30Tag, V31Tag}
  /\ \A k \in V3BaseKeys : IsWritten(cvssStr, k)
  /\ \A i \in 1..Len(cvssStr.segs) :
       /\ Len(cvssStr.segs[i]) = 2
       /\ cvssStr.segs[i][1] \in DOMAIN allKnownMetricsValues
       /\ Includes(allKnownMetricsValues[cvssStr.segs[i][1]], cvssStr.segs[i][2])
       /\ \A j \in 1..Len(cvssStr.segs) : cvssStr.segs[j][1] = cvssStr.segs[i][1] => j = i

PublishedWeight(cvssStr, key) ==
  LET value == Written(cvssStr, key)
  IN  CASE key = "AV" ->
             (CASE value = "N" -> Frac(85, 100) [] value = "A" -> Frac(62, 100)
                [] value = "L" -> Frac(55, 100) [] value = "P" -> Frac(20, 100))
        [] key = "AC" -> (IF value = "L" THEN Frac(77, 100) ELSE Frac(44, 100))
        [] key = "UI" -> (IF value = "N" THEN Frac(85, 100) ELSE Frac(62, 100))
        [] key = "PR" ->
             (CASE value = "N" -> Frac(85, 100)
                [] value = "L" -> (IF Written(cvssStr, "S") = "C" THEN Frac(68, 100)
                                   ELSE Frac(62, 100))
                [] value = "H" -> (IF Written(cvssStr, "S") = "C" THEN Frac(50, 100)
                                   ELSE Frac(27, 100)))
        [] key \in {"C", "I", "A"} ->
             (CASE value = "H" -> Frac(56, 100) [] value = "L" -> Frac(22, 100)
                [] value = "N" -> 0)

\* the smallest multiple of 0.1 that is not below x
PublishedRoundup(x) == ((x + Tenth - 1) \div Tenth) * Tenth

PublishedBaseScore(cvssStr) ==
  LET iss == One - Mul(Mul(One - PublishedWeight(cvssStr, "C"),
                           One - PublishedWeight(cvssStr, "I")),
                       One - PublishedWeight(cvssStr, "A"))
      changed == Written(cvssStr, "S") = "C"
      impact == IF changed
                THEN Mul(Frac(752, 100), iss - Frac(29, 1000))
                     - Mul(Frac(325, 100), MathPow(iss - Frac(2, 100), 15))
                ELSE Mul(Frac(642, 100), iss)
      exploitability ==
        Mul(Mul(Mul(Mul(Frac(822, 100), PublishedWeight(cvssStr, "AV")),
                    PublishedWeight(cvssStr, "AC")),
                PublishedWeight(cvssStr, "PR")),
            PublishedWeight(cvssStr, "UI"))
  IN  IF impact <= 0 THEN 0
      ELSE IF changed
      THEN PublishedRoundup(Min2(Mul(Frac(108, 100), impact + exploitability), 10 * Scale))
      ELSE PublishedRoundup(Min2(impact + exploitability, 10 * Scale))

\* C4: on a valid v3.x vector calculateBaseScore returns the score of the
\* published base equation: 0 when Impact <= 0, otherwise
\* roundup(min(Impact + Exploitability, 10)), with the sum multiplied by 1.08
\* when Scope is Changed; it returns 3.8 for
\* CVSS:3.1/AV:N/AC:L/PR:H/UI:N/S:U/C:L/I:L/A:N and 8.6 for
\* CVSS:3.0/AV:N/AC:L/PR:N/UI:N/S:C/C:H/I:N/A:N.
C4_PublishedBaseEquation ==
  (op = "calculateBaseScore" /\ ValidV3(vector)) =>
     /\ Returned
     /\ result.value = PublishedBaseScore(vector)
     /\ vector = V3Low => result.value = 38 * Tenth
     /\ vector = V3Changed => result.value = 86 * Tenth

\* the base score of a valid vector with a changed scope and an impact
C4_Witness ==
  /\ op = "calculateBaseScore"
  /\ ValidV3(vector)
  /\ Written(vector, "S") = "C"
  /\ Returned
  /\ result.value = 86 * Tenth

\* C5: calculateBaseScore gives a vector to the v4 engine exactly when its
\* version tag is 4.0 and to the v3.x engine exactly when the tag is 3.0 or
\* 3.1; with any other tag it fails with an unsupported-version error.
C5_RoutedByVersionTag ==
  op = "calculateBaseScore" =>
     IF VersionTag(vector) = V40Tag
     THEN \E tieUp \in BOOLEAN : result = calculateBaseScoreV4(vector, tieUp)
     ELSE IF VersionTag(vector) \in {V30Tag, V31Tag}
     THEN result = ScoreOf(calculateBaseResult(vector))
     ELSE result = Throw("Unsupported CVSS version")

\* C6: calculateTemporalScore and calculateEnvironmentalScore return a score
\* only for a vector whose version tag is 3.0 or 3.1; a vector tagged 4.0
\* gets no score from them.
C6_TemporalEnvironmentalV3Only ==
  (op \in {"calculateTemporalScore", "calculateEnvironmentalScore"} /\ Returned)
     => VersionTag(vector) \in {V30Tag, V31Tag}

V3BaseOf ==
  [MAV |-> "AV", MAC |-> "AC", MPR |-> "PR", MUI |-> "UI",
   MS |-> "S", MC |-> "C", MI |-> "I", MA |-> "A"]

V3ModifiedKeys == DOMAIN V3BaseOf

\* C7: populateEnvironmentalMetricDefaults leaves every modified metric MB at
\* its own input value if that was present and not X, and at the value of its
\* base metric otherwise; CR, IR and AR absent from the input hold X; the
\* entries of the base and temporal metrics are as they were.
C7_EnvironmentalDefaults ==
  [][op' = "populateEnvironmentalMetricDefaults" =>
       /\ \A mb \in V3ModifiedKeys :
            /\ mb \in DOMAIN metricsMap'
            /\ metricsMap'[mb] =
                 IF mb \in DOMAIN metricsMap /\ metricsMap[mb] # "X"
                 THEN metricsMap[mb]
                 ELSE metricsMap[V3BaseOf[mb]]
       /\ \A r \in {"CR", "IR", "AR"} :
            r \notin DOMAIN metricsMap => (r \in DOMAIN metricsMap' /\ metricsMap'[r] = "X")
       /\ \A k \in V3BaseKeys \cup {"E", "RL", "RC"} :
            /\ (k \in DOMAIN metricsMap') = (k \in DOMAIN metricsMap)
            /\ k \in DOMAIN metricsMap => metricsMap'[k] = metricsMap[k]
  ]_vars

\* after the call: MS kept its own value, MAV took AV's, IR was absent and is X
C7_Witness ==
  /\ op = "populateEnvironmentalMetricDefaults"
  /\ IsWritten(vector, "MS")
  /\ Written(vector, "MS") \notin {"X", Written(vector, "S")}
  /\ metricsMap["MS"] = Written(vector, "MS")
  /\ ~IsWritten(vector, "MAV")
  /\ metricsMap["MAV"] = Written(vector, "AV")
  /\ ~IsWritten(vector, "IR")
  /\ metricsMap["IR"] = "X"

\* a modified metric whose value its base metric can be written with
Resolvable(cvssStr, base) ==
  Overrides(cvssStr, base) /\ Written(cvssStr, V4ModifiedOf[base]) # "S"

\* the vector with every such value written on the base metric itself, and
\* the modified metric written as X
Resolved(cvssStr) ==
  Vector(cvssStr.prefix,
         [i \in 1..Len(cvssStr.segs) |->
            LET key == cvssStr.segs[i][1]
            IN  IF key \in V4BaseKeys /\ Resolvable(cvssStr, key)
                THEN <<key, Written(cvssStr, V4ModifiedOf[key])>>
                ELSE IF \E b \in V4BaseKeys : V4ModifiedOf[b] = key /\ Resolvable(cvssStr, b)
                THEN <<key, "X">>
                ELSE cvssStr.segs[i]])

\* C8: in v4 scoring the value used for a base metric B is MB's if MB is
\* present and not X and B's own otherwise; a vector and the vector that
\* writes the same effective values on the base metrics, with the same E, CR,
\* IR and AR, have the same MacroVector and the same score.
C8_EffectiveValuesDecide ==
  V4Scored =>
     /\ \A b \in V4BaseKeys : m(parseVectorV4(vector), b) = Effective(vector, b)
     /\ macroVector(parseVectorV4(Resolved(vector))) = macroVector(parseVectorV4(vector))
     /\ \A tieUp \in BOOLEAN :
          calculateBaseScoreV4(Resolved(vector), tieUp) = calculateBaseScoreV4(vector, tieUp)

\* a scored vector in which a modified metric overrides a different base value
C8_Witness ==
  /\ V4Scored
  /\ \E b \in V4BaseKeys :
       Resolvable(vector, b) /\ Written(vector, V4ModifiedOf[b]) # Written(vector, b)
  /\ result.value > 0

WorstCase == [E |-> "A", CR |-> "H", IR |-> "H", AR |-> "H"]

\* the vector with the metric's segment rewritten
Rewritten(cvssStr, key, value) ==
  Vector(cvssStr.prefix,
         [i \in 1..Len(cvssStr.segs) |->
            IF cvssStr.segs[i][1] = key THEN <<key, value>> ELSE cvssStr.segs[i]])

NotDefinedIn(cvssStr, key) == IsWritten(cvssStr, key) /\ Written(cvssStr, key) = "X"

\* C9: in an accepted v4 vector, writing E:A for E:X, or CR:H, IR:H, AR:H for
\* CR:X, IR:X, AR:X, leaves the MacroVector and the score as they are.
C9_NotDefinedIsWorstCase ==
  V4Scored =>
     \A k \in DOMAIN WorstCase :
        NotDefinedIn(vector, k) =>
           /\ macroVector(parseVectorV4(Rewritten(vector, k, WorstCase[k])))
                = macroVector(parseVectorV4(vector))
           /\ \A tieUp \in BOOLEAN :
                calculateBaseScoreV4(Rewritten(vector, k, WorstCase[k]), tieUp)
                  = calculateBaseScoreV4(vector, tieUp)

\* a scored vector with CR:X on a high VC
C9_Witness ==
  /\ V4Scored
  /\ NotDefinedIn(vector, "CR")
  /\ Effective(vector, "VC") = "H"
  /\ result.value > 0

\* the vector without the metric's segment
Without(cvssStr, key) ==
  Vector(cvssStr.prefix,
         SelectSeq(cvssStr.segs, LAMBDA seg : seg[1] # key))

\* the optional metrics that may be written as X
OptionalOf(cvssStr) ==
  IF VersionTag(cvssStr) = V40Tag
  THEN {"E", "CR", "IR", "AR"} \cup V4ModifiedKeys
  ELSE {"E", "RL", "RC", "CR", "IR", "AR"} \cup V3ModifiedKeys

\* C10: a score function gives a vector that writes an optional metric as X
\* the score it gives the same vector without that metric: for v4 E, CR, IR,
\* AR and the modified metrics, for v3.x E, RL, RC, CR, IR, AR and the
\* modified metrics.
C10_AbsentIsNotDefined ==
  (op \in ScoreOps /\ Returned) =>
     \A k \in OptionalOf(vector) :
        NotDefinedIn(vector, k) =>
           CASE op = "calculateBaseScore" ->
                  \A tieUp \in BOOLEAN :
                     calculateBaseScore(Without(vector, k), tieUp)
                       = calculateBaseScore(vector, tieUp)
             [] op = "calculateTemporalScore" ->
                  calculateTemporalScore(Without(vector, k)) = result
             [] op = "calculateEnvironmentalScore" ->
                  calculateEnvironmentalScore(Without(vector, k)) = result

\* an environmental score of a v3 vector that writes a modified metric as X
C10_Witness ==
  /\ op = "calculateEnvironmentalScore"
  /\ Returned
  /\ ValidV3(vector)
  /\ \E k \in V3ModifiedKeys : NotDefinedIn(vector, k)
  /\ result.value > 0

\* The Privileges Required weights of the CVSS v3 specification, by scope.
PRWeight(value, scope) ==
  CASE value = "N" -> Frac(85, 100)
    [] value = "L" -> (IF scope = "C" THEN Frac(68, 100) ELSE Frac(62, 100))
    [] value = "H" -> (IF scope = "C" THEN Frac(50, 100) ELSE Frac(27, 100))

\* the weights of the other exploitability metrics
ExploitabilityWeight(base, value) ==
  CASE base = "AV" ->
         (CASE value = "N" -> Frac(85, 100) [] value = "A" -> Frac(62, 100)
            [] value = "L" -> Frac(55, 100) [] value = "P" -> Frac(20, 100))
    [] base = "AC" -> (IF value = "L" THEN Frac(77, 100) ELSE Frac(44, 100))
    [] base = "UI" -> (IF value = "N" THEN Frac(85, 100) ELSE Frac(62, 100))

\* the value in effect for a modified metric of a v3 vector
EffectiveV3(cvssStr, mb) ==
  IF IsWritten(cvssStr, mb) /\ Written(cvssStr, mb) # "X"
  THEN Written(cvssStr, mb)
  ELSE Written(cvssStr, V3BaseOf[mb])

\* 8.22 x AV x AC x PR x UI, PR weighted by the scope it is paired with
ExploitabilityOf(av, ac, pr, ui, scope) ==
  Mul(Mul(Mul(Mul(Frac(822, 100), ExploitabilityWeight("AV", av)),
              ExploitabilityWeight("AC", ac)),
          PRWeight(pr, scope)),
      ExploitabilityWeight("UI", ui))

\* the Map after populateEnvironmentalMetricDefaults
Populated(map) == \A mb \in V3ModifiedKeys : mb \in DOMAIN map /\ map[mb] # "X"

\* C11: the weight of Privileges Required is 0.85 / 0.62 / 0.27 for N / L / H
\* with an unchanged scope and 0.85 / 0.68 / 0.5 with a changed one; the base
\* Exploitability weighs PR by the base S, and the Modified Exploitability
\* weighs the effective MPR by the effective MS (MS if present and not X,
\* else S).
C11_PrivilegesRequiredByScope ==
  /\ (op = "calculateExploitability" /\ ValidV3(vector)) =>
        result = Return(ExploitabilityOf(Written(vector, "AV"), Written(vector, "AC"),
                                         Written(vector, "PR"), Written(vector, "UI"),
                                         Written(vector, "S")))
  /\ (op = "calculateModifiedExploitability" /\ ValidV3(vector) /\ Populated(metricsMap)) =>
        result = Return(ExploitabilityOf(EffectiveV3(vector, "MAV"), EffectiveV3(vector, "MAC"),
                                         EffectiveV3(vector, "MPR"), EffectiveV3(vector, "MUI"),
                                         EffectiveV3(vector, "MS")))

\* PR:L with S:C and MS:U: the modified exploitability weighs it 0.62, the
\* base exploitability 0.68
C11_Witness ==
  /\ op = "calculateModifiedExploitability"
  /\ ValidV3(vector)
  /\ Populated(metricsMap)
  /\ Written(vector, "PR") = "L"
  /\ Written(vector, "S") = "C"
  /\ ~IsWritten(vector, "MPR")
  /\ IsWritten(vector, "MS")
  /\ Written(vector, "MS") = "U"
  /\ Returned
  /\ result.value = ExploitabilityOf(EffectiveV3(vector, "MAV"), EffectiveV3(vector, "MAC"),
                                     "L", EffectiveV3(vector, "MUI"), "U")
  /\ result.value # calculateExploitability(metricsMap)

\* x * 100000 rounded to the nearest integer, for x in units of 1 / Scale
HundredThousandths(x) ==
  CHOOSE n \in (x \div 1000)..(x \div 1000 + 1) :
    2 * (IF x >= n * 1000 THEN x - n * 1000 ELSE n * 1000 - x) < 1000

\* C12: roundUp(x) for x >= 0, with n = round(x * 100000), returns n / 100000
\* when n is a multiple of 10000 and (floor(n / 10000) + 1) / 10 otherwise; a
\* value on a 0.1 boundary is returned unchanged (4.00000 gives 4.0, not
\* 4.1), and the result is the least multiple of 0.1 that is >= n / 100000.
C12_RoundUpLeastTenth ==
  (op = "roundUp" /\ number >= 0) =>
     LET n == HundredThousandths(number)
     IN  /\ Returned
         /\ n % 10000 = 0 => result.value = n * (Scale \div 100000)
         /\ n % 10000 # 0 => result.value = ((n \div 10000) + 1) * (Scale \div 10)
         /\ number = 4 * Scale => result.value = 4 * Scale
         /\ result.value % Tenth = 0
         /\ result.value >= n * (Scale \div 100000)
         /\ result.value - Tenth < n * (Scale \div 100000)

\* 4.00000 is returned as 4.0
C12_Witness ==
  /\ op = "roundUp"
  /\ number = 4 * Scale
  /\ HundredThousandths(number) = 400000
  /\ result = Return(4 * Scale)

\* C13: calculateQualScore gives every score in [0.0, 10.0] exactly one
\* label: "None" iff the score is 0, "Low" iff 0 < score < 4.0, "Medium" iff
\* 4.0 <= score < 7.0, "High" iff 7.0 <= score < 9.0, "Critical" iff
\* score >= 9.0.
C13_QualitativeBands ==
  (op = "calculateQualScore" /\ number >= 0 /\ number <= 10 * Scale) =>
     /\ Returned
     /\ result.value \in {"None", "Low", "Medium", "High", "Critical"}
     /\ (result.value = "None") = (number = 0)
     /\ (result.value = "Low") = (0 < number /\ number < 4 * Scale)
     /\ (result.value = "Medium") = (4 * Scale <= number /\ number < 7 * Scale)
     /\ (result.value = "High") = (7 * Scale <= number /\ number < 9 * Scale)
     /\ (result.value = "Critical") = (number >= 9 * Scale)

\* 7.0 is High, not Medium
C13_Witness ==
  /\ op = "calculateQualScore"
  /\ number = 7 * Scale
  /\ result = Return("High")

-----------------------------------------------------------------------------
(* The v4 vector format, on the vector as written. *)

\* every segment is one key, one colon and one value
KeyValueSegments(cvssStr) == \A i \in 1..Len(cvssStr.segs) : Len(cvssStr.segs[i]) = 2

V4CatalogKeys == {expectedMetricOrder[i][1] : i \in 1..Len(expectedMetricOrder)}

\* the place of a metric in the canonical order
V4Position(key) == CHOOSE i \in 1..Len(expectedMetricOrder) : expectedMetricOrder[i][1] = key

V4Allowed(key) ==
  {expectedMetricOrder[V4Position(key)][2][j] :
     j \in 1..Len(expectedMetricOrder[V4Position(key)][2])}

WellFormedV4(cvssStr) ==
  /\ VersionTag(cvssStr) = V40Tag
  /\ \A i \in 1..Len(cvssStr.segs) :
       /\ cvssStr.segs[i][1] \in V4CatalogKeys
       /\ cvssStr.segs[i][2] \in V4Allowed(cvssStr.segs[i][1])
  /\ \A i, j \in 1..Len(cvssStr.segs) :
       i < j => /\ cvssStr.segs[j][1] \in V4CatalogKeys
                /\ V4Position(cvssStr.segs[i][1]) < V4Position(cvssStr.segs[j][1])
  /\ \A b \in V4BaseKeys : IsWritten(cvssStr, b)

\* C14: validateVectorV4 reports a vector of KEY:VALUE segments valid exactly
\* when its prefix is CVSS:4.0, its keys are a strictly increasing
\* subsequence of the canonical order with none repeated, every value is one
\* its key allows, and the 11 base keys are present; calculateBaseScoreV4
\* returns a score for exactly these vectors and throws for the others.
C14_ValidExactlyWhenWellFormed ==
  KeyValueSegments(vector) =>
     /\ op = "validateVectorV4" =>
          /\ Returned
          /\ result.value.valid = WellFormedV4(vector)
     /\ (op = "calculateBaseScore" /\ StartsWith(vector.prefix, V4Prefix)) =>
          /\ result.kind = (IF WellFormedV4(vector) THEN "return" ELSE "throw")
          /\ Returned => ~IsNaN(result.value)

\* a score for a well-formed vector that writes optional metrics
C14_Witness ==
  /\ op = "calculateBaseScore"
  /\ KeyValueSegments(vector)
  /\ WellFormedV4(vector)
  /\ \E k \in V4CatalogKeys \ V4BaseKeys : IsWritten(vector, k)
  /\ Returned
  /\ result.value > 0

\* the value of a segment, Undefined when it has no colon
ValueAt(cvssStr, i) ==
  IF Len(cvssStr.segs[i]) >= 2 THEN cvssStr.segs[i][2] ELSE Undefined

KeyAt(cvssStr, i) == cvssStr.segs[i][1]

\* the segment's key is not a metric of the v4 catalog
UnknownAt(cvssStr, i) == KeyAt(cvssStr, i) \notin V4CatalogKeys

\* the segment repeats the key of an earlier segment
RepeatedAt(cvssStr, i) == \E j \in 1..(i - 1) : KeyAt(cvssStr, j) = KeyAt(cvssStr, i)

\* the segment's key is recognised, not yet seen, and placed after a key that
\* follows it in the canonical order
OutOfSequenceAt(cvssStr, i) ==
  /\ ~UnknownAt(cvssStr, i)
  /\ ~RepeatedAt(cvssStr, i)
  /\ \E j \in 1..(i - 1) :
       /\ ~UnknownAt(cvssStr, j)
       /\ V4Position(KeyAt(cvssStr, j)) > V4Position(KeyAt(cvssStr, i))

\* the segment's value is not one its key allows
NotAllowedAt(cvssStr, i) ==
  /\ ~UnknownAt(cvssStr, i)
  /\ ValueAt(cvssStr, i) \notin V4Allowed(KeyAt(cvssStr, i))

InvalidAt(cvssStr, i) ==
  \/ UnknownAt(cvssStr, i)
  \/ RepeatedAt(cvssStr, i)
  \/ OutOfSequenceAt(cvssStr, i)
  \/ NotAllowedAt(cvssStr, i)

HasInvalid(cvssStr) == \E i \in 1..Len(cvssStr.segs) : InvalidAt(cvssStr, i)

FirstInvalid(cvssStr) ==
  CHOOSE i \in 1..Len(cvssStr.segs) :
    InvalidAt(cvssStr, i) /\ \A j \in 1..(i - 1) : ~InvalidAt(cvssStr, j)

\* the message of a failed validation: validateVectorV4 returns it,
\* calculateBaseScore throws it
V4Validated ==
  /\ VersionTag(vector) = V40Tag
  /\ op \in {"validateVectorV4", "calculateBaseScore"}

V4Failed ==
  IF op = "validateVectorV4" THEN ~result.value.valid ELSE result.kind = "throw"

V4Error == IF op = "validateVectorV4" THEN result.value.error ELSE result.error

\* C15: a CVSS:4.0 vector whose first invalid segment has a key outside the
\* v4 catalog fails validation with the unknown-metric ("unexpected metric")
\* error, not the out-of-sequence or the repeated-metric error.
C15_UnknownMetricReported ==
  (V4Validated /\ HasInvalid(vector) /\ UnknownAt(vector, FirstInvalid(vector))) =>
     /\ V4Failed
     /\ V4Error = "Invalid vector, unexpected metric: " \o KeyAt(vector, FirstInvalid(vector))

\* the errors validateVectorV4 has for a segment
ErrorsAt(cvssStr, i) ==
  LET key == KeyAt(cvssStr, i)
  IN  {"Invalid vector, repeated metric: " \o key,
       "Invalid vector, metric out of sequence: " \o key,
       "Invalid vector, unexpected metric: " \o key}
      \cup {"Invalid vector, for key " \o key \o ", value " \o Interpolated(ValueAt(cvssStr, i))
              \o " is not in [" \o Join(expectedMetricOrder[p][2], ",") \o "]" :
            p \in {q \in 1..Len(expectedMetricOrder) : expectedMetricOrder[q][1] = key}}

MissingMandatory(cvssStr) ==
  SelectSeq(<<"AV", "AC", "AT", "PR", "UI", "VC", "VI", "VA", "SC", "SI", "SA">>,
            LAMBDA b : ~IsWritten(cvssStr, b))

\* C16: a CVSS:4.0 vector whose first invalid segment repeats a key already
\* seen fails with the repeated-metric error; one whose first invalid segment
\* has a recognised, not yet seen key placed after a key that follows it in
\* the canonical order fails with the out-of-sequence error; the error
\* reported is that of the first offending segment in vector order, and
\* missing mandatory metrics are reported only when every segment passed.
C16_FirstOffendingSegmentReported ==
  V4Validated =>
     IF HasInvalid(vector)
     THEN LET i == FirstInvalid(vector)
          IN  /\ V4Failed
              /\ V4Error \in ErrorsAt(vector, i)
              /\ RepeatedAt(vector, i) =>
                   V4Error = "Invalid vector, repeated metric: " \o KeyAt(vector, i)
              /\ OutOfSequenceAt(vector, i) =>
                   V4Error = "Invalid vector, metric out of sequence: " \o KeyAt(vector, i)
     ELSE V4Failed =>
            /\ MissingMandatory(vector) # <<>>
            /\ V4Error = "Invalid vector, missing mandatory metrics: "
                           \o Join(MissingMandatory(vector), ", ")

\* two invalid segments with different keys, the first a repeat, the second
\* out of sequence or worse: the repeat is reported
C16_Witness ==
  /\ V4Validated
  /\ HasInvalid(vector)
  /\ RepeatedAt(vector, FirstInvalid(vector))
  /\ \E j \in (FirstInvalid(vector) + 1)..Len(vector.segs) :
       /\ InvalidAt(vector, j)
       /\ KeyAt(vector, j) # KeyAt(vector, FirstInvalid(vector))
  /\ V4Failed
  /\ V4Error = "Invalid vector, repeated metric: " \o KeyAt(vector, FirstInvalid(vector))

\* the segment is one key, one colon and one value
KeyValueAt(cvssStr, i) ==
  /\ Len(cvssStr.segs[i]) = 2
  /\ cvssStr.segs[i][1] # ""
  /\ cvssStr.segs[i][2] # ""

\* C17: validateVectorV4, and with it calculateBaseScore on a CVSS:4.0
\* vector, rejects every vector with a segment that is not exactly one key,
\* one colon and one value: an empty segment, a segment without a colon, a
\* segment with more colon-separated text after the value.
C17_MalformedSegmentRejected ==
  (V4Validated /\ \E i \in 1..Len(vector.segs) : ~KeyValueAt(vector, i)) => V4Failed

\* C18: the generic validator and the v4 validator agree: on every string
\* that begins with CVSS:4, validate returns normally exactly when
\* validateVectorV4 reports the string valid.
C18_ValidatorsAgree ==
  (op = "validate" /\ IsV4Tagged(vector)) =>
     (Returned = validateVectorV4(vector).valid)

-----------------------------------------------------------------------------
(* The decision tables of the six equivalence classes, on the effective
   values of the vector as written. *)

\* E, CR, IR, AR: the written value, or the worst case when not defined
EffectiveOrWorst(cvssStr, key) ==
  IF IsWritten(cvssStr, key) /\ Written(cvssStr, key) # "X"
  THEN Written(cvssStr, key)
  ELSE WorstCase[key]

IsSafety(cvssStr, key) == IsWritten(cvssStr, key) /\ Written(cvssStr, key) = "S"

Digit1(cvssStr) ==
  LET best == {b \in {"AV", "PR", "UI"} : Effective(cvssStr, b) = "N"}
  IN  IF best = {"AV", "PR", "UI"} THEN 0
      ELSE IF Effective(cvssStr, "AV") = "P" \/ best = {} THEN 2
      ELSE 1

Digit2(cvssStr) ==
  IF Effective(cvssStr, "AC") = "L" /\ Effective(cvssStr, "AT") = "N" THEN 0 ELSE 1

Digit3(cvssStr) ==
  IF Effective(cvssStr, "VC") = "H" /\ Effective(cvssStr, "VI") = "H" THEN 0
  ELSE IF \E b \in {"VC", "VI", "VA"} : Effective(cvssStr, b) = "H" THEN 1
  ELSE 2

Digit4(cvssStr) ==
  IF IsSafety(cvssStr, "MSI") \/ IsSafety(cvssStr, "MSA") THEN 0
  ELSE IF \E b \in {"SC", "SI", "SA"} : Effective(cvssStr, b) = "H" THEN 1
  ELSE 2

Digit5(cvssStr) ==
  CASE EffectiveOrWorst(cvssStr, "E") = "A" -> 0
    [] EffectiveOrWorst(cvssStr, "E") = "P" -> 1
    [] EffectiveOrWorst(cvssStr, "E") = "U" -> 2

Digit6(cvssStr) ==
  IF \/ EffectiveOrWorst(cvssStr, "CR") = "H" /\ Effective(cvssStr, "VC") = "H"
     \/ EffectiveOrWorst(cvssStr, "IR") = "H" /\ Effective(cvssStr, "VI") = "H"
     \/ EffectiveOrWorst(cvssStr, "AR") = "H" /\ Effective(cvssStr, "VA") = "H"
  THEN 0 ELSE 1

\* C20: for every accepted v4 vector macroVector computes from the effective
\* values the six digits of the decision tables (EQ1 from AV, PR, UI; EQ2
\* from AC, AT; EQ3 from VC, VI, VA; EQ4 from MSI, MSA, SC, SI, SA; EQ5 from
\* E; EQ6 from CR, VC, IR, VI, AR, VA); one branch of each chain applies, so
\* no digit is 0 only because no branch set it.
C20_MacroVectorDigits ==
  V4Scored =>
     /\ EffectiveOrWorst(vector, "E") \in {"A", "P", "U"}
     /\ macroVector(parseVectorV4(vector))
          = <<Digit1(vector), Digit2(vector), Digit3(vector),
              Digit4(vector), Digit5(vector), Digit6(vector)>>

\* a scored vector none of whose digits is 0
C20_Witness ==
  /\ V4Scored
  /\ macroVector(parseVectorV4(vector)) = <<2, 1, 2, 2, 2, 1>>
  /\ Digit5(vector) = 2
  /\ result.value > 0

-----------------------------------------------------------------------------
(* The v4 score of an accepted vector: its macrovector, the maximal vector
   it is measured from, the next lower macrovectors and the mean distance. *)

\* the macrovector of the vector of the state
MacroVectorOf(cvssStr) == macroVector(parseVectorV4(cvssStr))

\* a macrovector written as the key of the lookup table
MacroKey(macro) ==
  ToString(macro[1]) \o ToString(macro[2]) \o ToString(macro[3])
  \o ToString(macro[4]) \o ToString(macro[5]) \o ToString(macro[6])

\* the combinations of the six digits, EQ3 = 2 with EQ6 = 0 left out
ValidMacroVectors ==
  {macro \in (0..2) \X (0..1) \X (0..2) \X (0..2) \X (0..2) \X (0..1) :
     ~(macro[3] = 2 /\ macro[6] = 0)}

\* validateVectorV4 has accepted the vector of the state
V4Accepted ==
  \/ V4Scored
  \/ op = "validateVectorV4" /\ result.value.valid

\* C21: for every v4 vector validateVectorV4 accepts, the MacroVector is one
\* of the 270 keys of the global lookup table and has entries in maxComposed
\* and maxSeverityV4; EQ3 = 2 never comes with EQ6 = 0, so the base lookup is
\* never undefined.
C21_MacroVectorInTables ==
  V4Accepted =>
     LET macro == MacroVectorOf(vector)
     IN  /\ Cardinality(DOMAIN cvssLookup_globalV4) = 270
         /\ DOMAIN cvssLookup_globalV4 = {MacroKey(v) : v \in ValidMacroVectors}
         /\ macro \in ValidMacroVectors
         /\ ~(macro[3] = 2 /\ macro[6] = 0)
         /\ MacroKey(macro) \in DOMAIN cvssLookup_globalV4
         /\ ~IsNaN(LookupScore(cvssLookup_globalV4, macro))
         /\ macro[1] \in DOMAIN maxComposed.eq1
         /\ macro[2] \in DOMAIN maxComposed.eq2
         /\ macro[3] \in DOMAIN maxComposed.eq3
         /\ macro[6] \in DOMAIN maxComposed.eq3[macro[3]]
         /\ macro[4] \in DOMAIN maxComposed.eq4
         /\ macro[5] \in DOMAIN maxComposed.eq5
         /\ macro[1] \in DOMAIN maxSeverityV4.eq1
         /\ macro[2] \in DOMAIN maxSeverityV4.eq2
         /\ macro[3] \in DOMAIN maxSeverityV4.eq3eq6
         /\ macro[6] \in DOMAIN maxSeverityV4.eq3eq6[macro[3]]
         /\ macro[4] \in DOMAIN maxSeverityV4.eq4

\* a scored vector without a high VC, VI or VA, and a high requirement
C21_Witness ==
  /\ V4Scored
  /\ MacroVectorOf(vector)[3] = 2
  /\ MacroVectorOf(vector)[6] = 1
  /\ EffectiveOrWorst(vector, "CR") = "H"
  /\ result.value > 0


\* a scored vector that did not take the shortcut of a vector without impact
V4ScoredByDistance ==
  /\ V4Scored
  /\ ~NoImpact(parseVectorV4(vector))

\* no metric lies above the candidate's
NonNegative(distance) == \A k \in DOMAIN distance : distance[k] >= 0

\* the place in max_vectors of the candidate made of the i1-th maximum of
\* EQ1, the i2-th of EQ2, the i3-th of EQ3 with EQ6, the i4-th of EQ4 and the
\* i5-th of EQ5, when EQ1 is the outermost loop and EQ5 the innermost
PlaceInOrder(macro, i1, i2, i3, i4, i5) ==
  LET n2 == Len(getEQMaxes(macro, 2))
      n3 == Len(getEQMaxes(macro, 3)[macro[6]])
      n4 == Len(getEQMaxes(macro, 4))
      n5 == Len(getEQMaxes(macro, 5))
  IN  ((((i1 - 1) * n2 + (i2 - 1)) * n3 + (i3 - 1)) * n4 + (i4 - 1)) * n5 + i5

\* max_vectors holds the cross product in the order of the tables
InTableOrder(macro) ==
  LET eq1_maxes == getEQMaxes(macro, 1)
      eq2_maxes == getEQMaxes(macro, 2)
      eq3_eq6_maxes == getEQMaxes(macro, 3)[macro[6]]
      eq4_maxes == getEQMaxes(macro, 4)
      eq5_maxes == getEQMaxes(macro, 5)
  IN  /\ Len(max_vectors(macro))
           = Len(eq1_maxes) * Len(eq2_maxes) * Len(eq3_eq6_maxes)
             * Len(eq4_maxes) * Len(eq5_maxes)
      /\ \A i1 \in DOMAIN eq1_maxes, i2 \in DOMAIN eq2_maxes,
            i3 \in DOMAIN eq3_eq6_maxes, i4 \in DOMAIN eq4_maxes,
            i5 \in DOMAIN eq5_maxes :
            max_vectors(macro)[PlaceInOrder(macro, i1, i2, i3, i4, i5)]
              = eq1_maxes[i1] \o eq2_maxes[i2] \o eq3_eq6_maxes[i3]
                \o eq4_maxes[i4] \o eq5_maxes[i5]

\* the candidates before the i-th each have a negative distance, and the
\* i-th has none
FirstNonNegative(cvssSelected, macro, i) ==
  /\ NonNegative(SeverityDistance(cvssSelected, max_vectors(macro)[i]))
  /\ \A j \in 1..(i - 1) :
        ~NonNegative(SeverityDistance(cvssSelected, max_vectors(macro)[j]))

\* C22: the search takes the candidates in the order of the tables, EQ1
\* outermost and EQ5 innermost, and stops at the first whose distance to the
\* scored vector is non-negative on each of the 14 axes; for every accepted
\* v4 vector there is one, so the loop never falls through and no distance
\* used in the score is negative.
C22_FirstNonNegativeCandidate ==
  V4ScoredByDistance =>
     LET cvssSelected == parseVectorV4(vector)
         macro == MacroVectorOf(vector)
         used == severity_distance(cvssSelected, macro)
     IN  /\ InTableOrder(macro)
         /\ DOMAIN used = {DistanceMetrics[i] : i \in 1..Len(DistanceMetrics)}
         /\ Cardinality(DOMAIN used) = 14
         /\ \E i \in DOMAIN max_vectors(macro) :
               /\ FirstNonNegative(cvssSelected, macro, i)
               /\ used = SeverityDistance(cvssSelected, max_vectors(macro)[i])
         /\ NonNegative(used)
         /\ result.value
              = cvss_score(cvssSelected, cvssLookup_globalV4, maxSeverityV4, macro,
                           tieRoundsUp)

\* a vector scored from a later candidate: the first one lies below it on
\* some axis
C22_Witness ==
  /\ V4ScoredByDistance
  /\ LET cvssSelected == parseVectorV4(vector)
         macro == MacroVectorOf(vector)
     IN  /\ ~NonNegative(SeverityDistance(cvssSelected, max_vectors(macro)[1]))
         /\ \E i \in 3..Len(max_vectors(macro)) :
               FirstNonNegative(cvssSelected, macro, i)
         /\ \E k \in DOMAIN severity_distance(cvssSelected, macro) :
               severity_distance(cvssSelected, macro)[k] > 0

\* a macrovector with its EQ3 and EQ6 digits replaced
WithEq3Eq6(macro, eq3, eq6) ==
  <<macro[1], macro[2], eq3, macro[4], macro[5], eq6>>

\* the macrovectors stated to be next below in EQ3 with EQ6
StatedNextLowerEq3Eq6(macro) ==
  CASE macro[3] = 0 /\ macro[6] = 0 ->
         {WithEq3Eq6(macro, 0, 1), WithEq3Eq6(macro, 1, 0)}
    [] macro[3] = 0 /\ macro[6] = 1 -> {WithEq3Eq6(macro, 1, 1)}
    [] macro[3] = 1 /\ macro[6] = 0 -> {WithEq3Eq6(macro, 1, 1)}
    [] macro[3] = 1 /\ macro[6] = 1 -> {WithEq3Eq6(macro, 2, 1)}
    [] OTHER -> {}

\* the highest table score among macrovectors, NaN when there are none
HighestScore(lookup, macros) ==
  IF macros = {} THEN NaN
  ELSE CHOOSE s \in {LookupScore(lookup, macro) : macro \in macros} :
         \A macro \in macros : s >= LookupScore(lookup, macro)

\* a macrovector with one digit raised by one
Incremented(macro, digit) ==
  [i \in 1..6 |-> IF i = digit THEN macro[i] + 1 ELSE macro[i]]

\* C23: the next lower neighbour for EQ3 with EQ6 is, from (0,0), the one of
\* (0,1) and (1,0) with the higher table score; from (0,1) it is (1,1); from
\* (1,0) it is (1,1); from (1,1) it is (2,1); from (2,1) there is none.  For
\* EQ1, EQ2, EQ4 and EQ5 it is the macrovector with that digit raised by one.
C23_NextLowerNeighbours ==
  V4ScoredByDistance =>
     LET macro == MacroVectorOf(vector)
         lookup == cvssLookup_globalV4
         value == LookupScore(lookup, macro)
         available == available_distance(lookup, macro)
     IN  /\ score_eq3eq6_next_lower_macro(lookup, macro)
              = HighestScore(lookup, StatedNextLowerEq3Eq6(macro))
         /\ available.eq3eq6
              = Sub(value, HighestScore(lookup, StatedNextLowerEq3Eq6(macro)))
         /\ eq1_next_lower_macro(macro) = Incremented(macro, 1)
         /\ eq2_next_lower_macro(macro) = Incremented(macro, 2)
         /\ eq4_next_lower_macro(macro) = Incremented(macro, 4)
         /\ eq5_next_lower_macro(macro) = Incremented(macro, 5)
         /\ available.eq1 = Sub(value, LookupScore(lookup, Incremented(macro, 1)))
         /\ available.eq2 = Sub(value, LookupScore(lookup, Incremented(macro, 2)))
         /\ available.eq4 = Sub(value, LookupScore(lookup, Incremented(macro, 4)))
         /\ available.eq5 = Sub(value, LookupScore(lookup, Incremented(macro, 5)))

\* the five classes a mean distance is taken over
Classes == {"eq1", "eq2", "eq3eq6", "eq4", "eq5"}

\* the macrovectors stated to be next below in a class
StatedNextLower(macro, eq) ==
  CASE eq = "eq1" -> {Incremented(macro, 1)}
    [] eq = "eq2" -> {Incremented(macro, 2)}
    [] eq = "eq3eq6" -> StatedNextLowerEq3Eq6(macro)
    [] eq = "eq4" -> {Incremented(macro, 4)}
    [] eq = "eq5" -> {Incremented(macro, 5)}

\* the classes with no next lower macrovector in the lookup table
WithoutNeighbour(lookup, macro) ==
  {eq \in Classes :
     \A lower \in StatedNextLower(macro, eq) : MacroKey(lower) \notin DOMAIN lookup}

\* the classes the code has an available distance for
Counted(lookup, macro) ==
  {eq \in Classes : ~IsNaN(available_distance(lookup, macro)[eq])}

\* the part of a class in the sum of the mean, times SeverityScale
Contribution(cvssSelected, lookup, maxSeverityData, macro, eq) ==
  IF eq = "eq5" THEN 0
  ELSE available_distance(lookup, macro)[eq]
       * current_severity_distance(cvssSelected, macro)[eq]
       * (SeverityScale \div maxSeverity(maxSeverityData, macro)[eq])

RECURSIVE SumOver(_, _, _, _, _)
SumOver(cvssSelected, lookup, maxSeverityData, macro, classes) ==
  IF classes = {} THEN 0
  ELSE LET eq == CHOOSE c \in classes : TRUE
       IN  Contribution(cvssSelected, lookup, maxSeverityData, macro, eq)
           + SumOver(cvssSelected, lookup, maxSeverityData, macro, classes \ {eq})

\* the table score less the mean over the counted classes, rounded to a tenth
ScoreOverCounted(cvssSelected, lookup, maxSeverityData, macro, tieUp) ==
  LET value == LookupScore(lookup, macro)
      counted == Counted(lookup, macro)
      n == Cardinality(counted)
      sum == SumOver(cvssSelected, lookup, maxSeverityData, macro, counted)
      num == value * SeverityScale * n - sum
      den == SeverityScale * n
  IN  IF n = 0 THEN value * Tenth
      ELSE IF num < 0 THEN 0
      ELSE IF num > 100 * den THEN 100 * Tenth
      ELSE MathRound(num, den, tieUp) * Tenth

\* C24: a class whose next lower macrovector is absent from the lookup table
\* is in neither the sum nor the divisor of the mean; EQ5 with a neighbour is
\* in the divisor and adds 0 to the sum; with no class counted (macrovector
\* 212221) the mean distance is 0 and the score is the table value, 0.1.
C24_MeanOverAvailableClasses ==
  V4ScoredByDistance =>
     LET cvssSelected == parseVectorV4(vector)
         macro == MacroVectorOf(vector)
         lookup == cvssLookup_globalV4
     IN  /\ WithoutNeighbour(lookup, macro) \cap Counted(lookup, macro) = {}
         /\ ("eq5" \in Counted(lookup, macro)) = (macro[5] < 2)
         /\ result.value
              = ScoreOverCounted(cvssSelected, lookup, maxSeverityV4, macro,
                                 tieRoundsUp)
         /\ Counted(lookup, macro) = {} =>
               result.value = LookupScore(lookup, macro) * Tenth
         /\ (macro = <<2, 1, 2, 2, 2, 1>>) = (WithoutNeighbour(lookup, macro) = Classes)
         /\ macro = <<2, 1, 2, 2, 2, 1>> =>
               /\ Counted(lookup, macro) = {}
               /\ result.value = Tenth

\* a vector with a class without a neighbour, EQ5 with one, and a distance
\* to its maximal vector in a counted class
C24_Witness ==
  /\ V4ScoredByDistance
  /\ LET cvssSelected == parseVectorV4(vector)
         macro == MacroVectorOf(vector)
         lookup == cvssLookup_globalV4
     IN  /\ "eq2" \in WithoutNeighbour(lookup, macro)
         /\ "eq4" \in WithoutNeighbour(lookup, macro)
         /\ "eq5" \in Counted(lookup, macro)
         /\ current_severity_distance(cvssSelected, macro).eq2 > 0
         /\ SumOver(cvssSelected, lookup, maxSeverityV4, macro,
                    Counted(lookup, macro)) > 0
         /\ result.value < LookupScore(lookup, macro) * Tenth

\* a vector of macrovector 212221 below its maximal vector, with an impact
LowestMacroVectorScored ==
  /\ V4ScoredByDistance
  /\ MacroVectorOf(vector) = <<2, 1, 2, 2, 2, 1>>
  /\ current_severity_distance(parseVectorV4(vector), MacroVectorOf(vector)).eq3eq6 > 0

\* the classes with a grouped severity distance
DistanceClasses == {"eq1", "eq2", "eq3eq6", "eq4"}

\* the table score of the neighbour the available distance of a class is
\* measured to
NeighbourScore(lookup, macro, eq) ==
  LookupScore(lookup, macro) - available_distance(lookup, macro)[eq]

\* C25: for every accepted v4 vector with an impact, the score is not above
\* the table score of its own macrovector and not below the lowest table
\* score among its available next lower neighbours: every available distance
\* is >= 0, and every grouped severity distance is >= 0 and below the
\* maxSeverity of its class.
C25_ScoreBetweenOwnAndNeighbours ==
  V4ScoredByDistance =>
     LET cvssSelected == parseVectorV4(vector)
         macro == MacroVectorOf(vector)
         lookup == cvssLookup_globalV4
         value == LookupScore(lookup, macro)
         available == available_distance(lookup, macro)
         current == current_severity_distance(cvssSelected, macro)
         max == maxSeverity(maxSeverityV4, macro)
     IN  /\ result.value <= value * Tenth
         /\ \A eq \in Counted(lookup, macro) :
               /\ available[eq] >= 0
               /\ NeighbourScore(lookup, macro, eq) <= value
         /\ \A eq \in Classes : \A lower \in StatedNextLower(macro, eq) :
               MacroKey(lower) \in DOMAIN lookup => LookupScore(lookup, lower) <= value
         /\ Counted(lookup, macro) # {} =>
               \E eq \in Counted(lookup, macro) :
                  /\ \A other \in Counted(lookup, macro) :
                        NeighbourScore(lookup, macro, eq)
                          <= NeighbourScore(lookup, macro, other)
                  /\ result.value >= NeighbourScore(lookup, macro, eq) * Tenth
         /\ \A eq \in DistanceClasses :
               /\ current[eq] >= 0
               /\ current[eq] < max[eq]

\* a score strictly between the table score and the lowest neighbour's, with
\* a distance in three classes
C25_Witness ==
  /\ V4ScoredByDistance
  /\ LET cvssSelected == parseVectorV4(vector)
         macro == MacroVectorOf(vector)
         lookup == cvssLookup_globalV4
         current == current_severity_distance(cvssSelected, macro)
     IN  /\ Cardinality(Counted(lookup, macro)) >= 4
         /\ Cardinality({eq \in DistanceClasses : current[eq] > 0}) >= 3
         /\ result.value < LookupScore(lookup, macro) * Tenth
         /\ \A eq \in Counted(lookup, macro) :
               result.value > NeighbourScore(lookup, macro, eq) * Tenth
-----------------------------------------------------------------------------
(* The v3.x results: the sub-scores, the two versions, and the temporal and
   environmental scores against the base score. *)

\* the Impact sub-score of the published base equations
PublishedImpact(cvssStr) ==
  LET iss == One - Mul(Mul(One - PublishedWeight(cvssStr, "C"),
                           One - PublishedWeight(cvssStr, "I")),
                       One - PublishedWeight(cvssStr, "A"))
  IN  IF Written(cvssStr, "S") = "C"
      THEN Mul(Frac(752, 100), iss - Frac(29, 1000))
           - Mul(Frac(325, 100), MathPow(iss - Frac(2, 100), 15))
      ELSE Mul(Frac(642, 100), iss)

\* the Exploitability sub-score of the published base equations
PublishedExploitability(cvssStr) ==
  ExploitabilityOf(Written(cvssStr, "AV"), Written(cvssStr, "AC"),
                   Written(cvssStr, "PR"), Written(cvssStr, "UI"),
                   Written(cvssStr, "S"))

\* C, I and A are all N
NoImpactV3(cvssStr) == \A k \in {"C", "I", "A"} : Written(cvssStr, k) = "N"

\* C26: for every valid v3.x vector calculateBaseResult returns score 0
\* exactly when C, I and A are all N (Impact <= 0), and then reports the
\* impact and exploitability sub-scores as 0; otherwise the score is at least
\* 0.1 and the sub-scores are roundUp(Impact) and roundUp(Exploitability).
C26_BaseResultSubScores ==
  (op = "calculateBaseResult" /\ ValidV3(vector)) =>
     /\ Returned
     /\ metricsMap = validate(vector).metricsMap
     /\ NoImpactV3(vector) = (PublishedImpact(vector) <= 0)
     /\ NoImpactV3(vector) = (result.value.score = 0)
     /\ NoImpactV3(vector) =>
           /\ result.value.impact = 0
           /\ result.value.exploitability = 0
     /\ ~NoImpactV3(vector) =>
           /\ result.value.score >= Tenth
           /\ result.value.score <= 10 * Scale
           /\ result.value.impact = roundUp(PublishedImpact(vector))
           /\ result.value.exploitability = roundUp(PublishedExploitability(vector))
           /\ result.value.impact > 0
           /\ result.value.exploitability > 0

\* a result without impact under an unchanged scope, the exploitability of
\* the vector being 3.9
C26_Witness ==
  /\ op = "calculateBaseResult"
  /\ ValidV3(vector)
  /\ NoImpactV3(vector)
  /\ Written(vector, "S") = "U"
  /\ roundUp(PublishedExploitability(vector)) = 39 * Tenth
  /\ result = Return([score |-> 0, impact |-> 0, exploitability |-> 0])

\* the vector under the other of the two tags 3.0 and 3.1
Retagged(cvssStr) ==
  Vector(CvssPrefix \o (IF VersionTag(cvssStr) = V30Tag THEN Version31 ELSE Version30),
         cvssStr.segs)

\* the Map calculateEnvironmentalResult computes from
EnvironmentalMap(cvssStr) ==
  populateEnvironmentalMetricDefaults(
    populateTemporalMetricDefaults(validate(cvssStr).metricsMap))

\* 7.52 x (MISS - 0.029) - 3.25 x (MISS x scaling - 0.02) ^ exponent
ModifiedImpactChanged(miss, scaling, exponent) ==
  Mul(Frac(752, 100), miss - Frac(29, 1000))
  - Mul(Frac(325, 100), MathPow(Mul(miss, scaling) - Frac(2, 100), exponent))

\* the environmental score of a valid vector from its Modified Impact
EnvironmentalScoreFrom(cvssStr, modifiedImpact) ==
  LET map == EnvironmentalMap(cvssStr)
      sum == modifiedImpact + calculateModifiedExploitability(map)
      rounded == IF map["MS"] = "U" THEN roundUp(Min2(sum, 10 * Scale))
                 ELSE roundUp(Min2(Mul(Frac(108, 100), sum), 10 * Scale))
  IN  IF modifiedImpact <= 0 THEN 0
      ELSE roundUp(Mul(Mul(Mul(rounded, temporalMetricValueScores.E[map["E"]]),
                           temporalMetricValueScores.RL[map["RL"]]),
                       temporalMetricValueScores.RC[map["RC"]]))

\* C27: versions 3.0 and 3.1 differ only in the Modified Impact of a changed
\* scope.  Of two valid vectors that differ in the version tag alone the
\* base scores are equal, the temporal scores are equal, and the
\* environmental scores are equal when the effective Modified Scope is
\* Unchanged; when it is Changed, calculateModifiedImpact takes scaling 1 and
\* exponent 15 for 3.0, and scaling 0.9731 and exponent 13 for 3.1.
C27_VersionsDifferInModifiedImpact ==
  (op \in ScoreOps /\ ValidV3(vector)) =>
     /\ ValidV3(Retagged(vector))
     /\ VersionTag(Retagged(vector)) # VersionTag(vector)
     /\ Returned
     /\ op = "calculateBaseScore" =>
           result = calculateBaseScore(Retagged(vector), tieRoundsUp)
     /\ op = "calculateTemporalScore" =>
           result = calculateTemporalScore(Retagged(vector))
     /\ (op = "calculateEnvironmentalScore" /\ EffectiveV3(vector, "MS") = "U") =>
           result = calculateEnvironmentalScore(Retagged(vector))
     /\ (op = "calculateEnvironmentalScore" /\ EffectiveV3(vector, "MS") = "C") =>
           LET miss == calculateMiss(EnvironmentalMap(vector))
           IN  result.value
                 = EnvironmentalScoreFrom(
                     vector,
                     IF VersionTag(vector) = V30Tag
                     THEN ModifiedImpactChanged(miss, One, 15)
                     ELSE ModifiedImpactChanged(miss, Frac(9731, 10000), 13))

\* an environmental score under a changed scope that the other version
\* gives 0.1 higher
C27_Witness ==
  /\ op = "calculateEnvironmentalScore"
  /\ ValidV3(vector)
  /\ VersionTag(vector) = V30Tag
  /\ EffectiveV3(vector, "MS") = "C"
  /\ Returned
  /\ calculateEnvironmentalScore(Retagged(vector)) = Return(result.value + Tenth)

\* the weight of a temporal metric as written, 1 when it is absent
TemporalWeight(cvssStr, key) ==
  LET value == IF IsWritten(cvssStr, key) THEN Written(cvssStr, key) ELSE "X"
  IN  CASE key = "E" ->
             (CASE value \in {"X", "H"} -> One [] value = "F" -> Frac(97, 100)
                [] value = "P" -> Frac(94, 100) [] value = "U" -> Frac(91, 100))
        [] key = "RL" ->
             (CASE value \in {"X", "U"} -> One [] value = "W" -> Frac(97, 100)
                [] value = "T" -> Frac(96, 100) [] value = "O" -> Frac(95, 100))
        [] key = "RC" ->
             (CASE value \in {"X", "C"} -> One [] value = "R" -> Frac(96, 100)
                [] value = "U" -> Frac(92, 100))

\* the metric is absent or written with the value
AbsentOr(cvssStr, key, values) ==
  IsWritten(cvssStr, key) => Written(cvssStr, key) \in values

\* every temporal weight of the vector is 1
UnitTemporalWeights(cvssStr) ==
  /\ AbsentOr(cvssStr, "E", {"X", "H"})
  /\ AbsentOr(cvssStr, "RL", {"X", "U"})
  /\ AbsentOr(cvssStr, "RC", {"X", "C"})

\* the base score of a valid v3.x vector
BaseScoreOf(cvssStr) == calculateBaseScore(cvssStr, TRUE).value

\* C28: for every valid v3.x vector calculateTemporalScore is
\* roundUp(BaseScore x E x RL x RC); it never exceeds calculateBaseScore of
\* the vector, and equals it when every temporal weight is 1: E absent, X or
\* H, RL absent, X or U, RC absent, X or C.
C28_TemporalScoreFromBaseScore ==
  (op = "calculateTemporalScore" /\ ValidV3(vector)) =>
     /\ Returned
     /\ result.value
          = roundUp(Mul(Mul(Mul(BaseScoreOf(vector), TemporalWeight(vector, "E")),
                            TemporalWeight(vector, "RL")),
                        TemporalWeight(vector, "RC")))
     /\ result.value <= BaseScoreOf(vector)
     /\ result.value >= 0
     /\ UnitTemporalWeights(vector) =
           (\A key \in {"E", "RL", "RC"} : TemporalWeight(vector, key) = One)
     /\ UnitTemporalWeights(vector) => result.value = BaseScoreOf(vector)

\* a temporal score below the base score, every temporal metric written and
\* one of them with the weight 1
C28_Witness ==
  /\ op = "calculateTemporalScore"
  /\ ValidV3(vector)
  /\ \A key \in {"E", "RL", "RC"} : IsWritten(vector, key)
  /\ Written(vector, "RC") = "C"
  /\ ~UnitTemporalWeights(vector)
  /\ Returned
  /\ result.value > 0
  /\ result.value < BaseScoreOf(vector)

\* a temporal score equal to a base score above 0, the temporal metrics
\* written with the values of weight 1 that are not X
UnitTemporalWeightsScored ==
  /\ op = "calculateTemporalScore"
  /\ ValidV3(vector)
  /\ IsWritten(vector, "E") /\ Written(vector, "E") = "H"
  /\ IsWritten(vector, "RL") /\ Written(vector, "RL") = "U"
  /\ IsWritten(vector, "RC") /\ Written(vector, "RC") = "C"
  /\ result = Return(BaseScoreOf(vector))
  /\ result.value > 0

\* no environmental metric is written, or each one written is X
NoEnvironmentalMetric(cvssStr) ==
  \A key \in Range(environmentalMetrics) : AbsentOr(cvssStr, key, {"X"})

\* no temporal metric is written
NoTemporalMetric(cvssStr) ==
  \A key \in Range(temporalMetrics) : ~IsWritten(cvssStr, key)

\* C29: for every valid v3.x vector with an unchanged scope and no
\* environmental metric present, or all of them X, calculateEnvironmentalScore
\* equals calculateTemporalScore of the vector, and calculateBaseScore when
\* no temporal metric is present either: each modified metric takes the
\* value of its base metric, the requirement weights are 1 and MISS stays
\* below its cap of 0.915.
C29_EnvironmentalScoreWithoutEnvironmentalMetrics ==
  (/\ op = "calculateEnvironmentalScore"
   /\ ValidV3(vector)
   /\ Written(vector, "S") = "U"
   /\ NoEnvironmentalMetric(vector)) =>
     LET map == EnvironmentalMap(vector)
     IN  /\ Returned
         /\ result = calculateTemporalScore(vector)
         /\ NoTemporalMetric(vector) => result = calculateBaseScore(vector, TRUE)
         /\ \A mb \in V3ModifiedKeys : map[mb] = Written(vector, V3BaseOf[mb])
         /\ \A key \in {"CR", "IR", "AR"} : getMetricNumericValue(key, map) = One
         /\ calculateMiss(map) < Frac(915, 1000)
         /\ calculateMiss(map) = calculateIss(validate(vector).metricsMap)

\* an environmental score above 9, the environmental metrics all written
\* as X and the temporal metrics absent
C29_Witness ==
  /\ op = "calculateEnvironmentalScore"
  /\ ValidV3(vector)
  /\ Written(vector, "S") = "U"
  /\ \A key \in Range(environmentalMetrics) :
        IsWritten(vector, key) /\ Written(vector, key) = "X"
  /\ NoTemporalMetric(vector)
  /\ Returned
  /\ result.value > 9 * Scale
  /\ result = calculateBaseScore(vector, TRUE)

\* a v3.x vector of key:value segments that passes every check of validate
\* before the check of the values: each base metric written, no metric
\* written twice, and none outside the catalog
ValuesChecked(cvssStr) ==
  /\ VersionTag(cvssStr) \in {V30Tag, V31Tag}
  /\ \A k \in V3BaseKeys : IsWritten(cvssStr, k)
  /\ \A i \in 1..Len(cvssStr.segs) :
       /\ Len(cvssStr.segs[i]) = 2
       /\ cvssStr.segs[i][1] \in DOMAIN allKnownMetricsValues
       /\ \A j \in 1..Len(cvssStr.segs) : cvssStr.segs[j][1] = cvssStr.segs[i][1] => j = i

\* a metric is written with a value its value set does not hold
HasValueNotAllowed(cvssStr) ==
  \E i \in 1..Len(cvssStr.segs) :
     ~Includes(allKnownMetricsValues[cvssStr.segs[i][1]], cvssStr.segs[i][2])

\* C30: validate fails with an invalid-metric-value error for every v3.x
\* metric map in which a known metric is present with a value outside its
\* allowed values, the empty string included; so every map it returns holds
\* allowed values only, and every weight the score functions look up is
\* defined.
C30_ValueNotAllowedRejected ==
  /\ (op = "validate" /\ ValuesChecked(vector) /\ HasValueNotAllowed(vector)) =>
        result = Throw("Invalid value for CVSS metric")
  /\ (op = "validate" /\ VersionTag(vector) \in {V30Tag, V31Tag} /\ Returned) =>
        \A k \in DOMAIN metricsMap :
           /\ k \in DOMAIN allKnownMetricsValues
           /\ Includes(allKnownMetricsValues[k], metricsMap[k])
           /\ k \in {"AV", "AC", "PR", "UI", "C", "I", "A", "E", "RL", "RC"} =>
                 ~IsNaN(getMetricNumericValue(k, metricsMap))
====
